---- MODULE Spec2Model ----
(***************************************************************************)
(* A model of the mos6502 emulator core: the CPU register file, its timed  *)
(* bus primitives, the opcode dispatcher and the instruction handlers      *)
(* (src/src/cpu/mod.rs and the handler modules below it), running on the   *)
(* 64 KiB Memory of src/src/memory.rs.                                     *)
(*                                                                         *)
(* Memory is kept sparse: `memory` holds the cells that somebody has       *)
(* written (the driver while loading a program, or the CPU); every other   *)
(* cell still holds what Memory::new put there.  The driver's program is   *)
(* arbitrary, so the driver writes a cell the first time the CPU is about  *)
(* to read it (action Load): since the CPU has not touched that cell yet,  *)
(* this is the same as having written it before the CPU started.           *)
(***************************************************************************)
EXTENDS Integers, Sequences, FiniteSets, TLC

VARIABLES
    acc, x, y, sp, pc, status, cycles,   \* the fields of struct CPU
    memory,                              \* Memory, as the cells written so far
    phase,                               \* "Created" | "Running" | "Halted"
    deadline,                            \* the cycle count at which the driver stops the CPU
    fault,                               \* "none" | "InvalidOpcode" | "Overflow"
    last,                                \* the last operation performed
    pre,                                 \* CPU and memory before the last execute_next_instruction
    before,                              \* the values pre held before the last calls, newest first
    bus                                  \* Memory::read / Memory::write calls of the last operation

vars == <<acc, x, y, sp, pc, status, cycles, memory, phase, deadline, fault, last, pre, before, bus>>

----------------------------------------------------------------------------
(* Bounds of the exploration *)

\* the driver stops calling execute_next_instruction once the cycle counter
\* has reached MaxCycles (counted from a reset)
MaxCycles == 9

\* the number of instructions in the two-instruction programs of SpecPairs,
\* and the number of earlier values of pre that are remembered
PairLength == 2

\* bytes the driver puts into the cells the program reads as operands or data
DataBytes == {0, 127, 252, 255}          \* $00 $7F $FC $FF

\* bytes the driver may put into the reset vector, besides leaving it alone
VectorBytes == {253, 255}                \* $FD $FF

----------------------------------------------------------------------------
(* Program constants *)

CSF_ZERO == 2
CSF_NEGATIVE == 128
SYS_STACK_ADDR_END == 256
UNRESERVED_MEMORY_ADDR_START == 512
POWER_ON_RESET_ADDR_L == 65532
POWER_ON_RESET_ADDR_H == 65533
CPU_DEFAULT_ACC == 0
CPU_DEFAULT_X == 0
CPU_DEFAULT_Y == 0
CPU_DEFAULT_SP == 255
CPU_DEFAULT_STATUS == 32
RESET_CYCLES == 7

Opcode ==
    [ JMPAbs |-> 76,  JMPInd |-> 108, JSR    |-> 32,
      LDAImm |-> 169, LDAZpg |-> 165, LDAZpx |-> 181, LDAAbs |-> 173,
      LDAAbx |-> 189, LDAAby |-> 185, LDAIdx |-> 161, LDAIdy |-> 177,
      LDXImm |-> 162, LDXZpg |-> 166, LDXZpy |-> 182, LDXAbs |-> 174, LDXAby |-> 190,
      LDYImm |-> 160, LDYZpg |-> 164, LDYZpx |-> 180, LDYAbs |-> 172, LDYAbx |-> 188,
      PHA    |-> 72,  PHP    |-> 8,   PLA    |-> 104, PLP    |-> 40,  RTS |-> 96,
      STAZpg |-> 133, STAZpx |-> 149, STAAbs |-> 141, STAAbx |-> 157,
      STAAby |-> 153, STAIdx |-> 129, STAIdy |-> 145,
      STXZpg |-> 134, STXZpy |-> 150, STXAbs |-> 142,
      STYZpg |-> 132, STYZpx |-> 148, STYAbs |-> 140,
      TSX    |-> 186, TXS    |-> 154 ]

\* the instruction each variant of Opcode names
OpcodeMnemonic ==
    [ JMPAbs |-> "JMP", JMPInd |-> "JMP", JSR |-> "JSR", LDAImm |-> "LDA",
      LDAZpg |-> "LDA", LDAZpx |-> "LDA", LDAAbs |-> "LDA", LDAAbx |-> "LDA",
      LDAAby |-> "LDA", LDAIdx |-> "LDA", LDAIdy |-> "LDA", LDXImm |-> "LDX",
      LDXZpg |-> "LDX", LDXZpy |-> "LDX", LDXAbs |-> "LDX", LDXAby |-> "LDX",
      LDYImm |-> "LDY", LDYZpg |-> "LDY", LDYZpx |-> "LDY", LDYAbs |-> "LDY",
      LDYAbx |-> "LDY", PHA |-> "PHA", PHP |-> "PHP", PLA |-> "PLA",
      PLP |-> "PLP", RTS |-> "RTS", STAZpg |-> "STA", STAZpx |-> "STA",
      STAAbs |-> "STA", STAAbx |-> "STA", STAAby |-> "STA", STAIdx |-> "STA",
      STAIdy |-> "STA", STXZpg |-> "STX", STXZpy |-> "STX", STXAbs |-> "STX",
      STYZpg |-> "STY", STYZpx |-> "STY", STYAbs |-> "STY", TSX |-> "TSX",
      TXS |-> "TXS" ]

\* the addressing mode each variant of Opcode names
OpcodeMode ==
    [ JMPAbs |-> "Absolute", JMPInd |-> "Indirect", JSR |-> "Absolute", LDAImm |-> "Immediate",
      LDAZpg |-> "ZeroPage", LDAZpx |-> "ZeroPageX", LDAAbs |-> "Absolute", LDAAbx |-> "AbsoluteX",
      LDAAby |-> "AbsoluteY", LDAIdx |-> "IndirectX", LDAIdy |-> "IndirectY", LDXImm |-> "Immediate",
      LDXZpg |-> "ZeroPage", LDXZpy |-> "ZeroPageY", LDXAbs |-> "Absolute", LDXAby |-> "AbsoluteY",
      LDYImm |-> "Immediate", LDYZpg |-> "ZeroPage", LDYZpx |-> "ZeroPageX", LDYAbs |-> "Absolute",
      LDYAbx |-> "AbsoluteX", PHA |-> "Implied", PHP |-> "Implied", PLA |-> "Implied",
      PLP |-> "Implied", RTS |-> "Implied", STAZpg |-> "ZeroPage", STAZpx |-> "ZeroPageX",
      STAAbs |-> "Absolute", STAAbx |-> "AbsoluteX", STAAby |-> "AbsoluteY", STAIdx |-> "IndirectX",
      STAIdy |-> "IndirectY", STXZpg |-> "ZeroPage", STXZpy |-> "ZeroPageY", STXAbs |-> "Absolute",
      STYZpg |-> "ZeroPage", STYZpx |-> "ZeroPageX", STYAbs |-> "Absolute", TSX |-> "Implied",
      TXS |-> "Implied" ]

\* the bytes Opcode::try_from accepts
OpcodeBytes == { Opcode[n] : n \in DOMAIN Opcode }

----------------------------------------------------------------------------
(* Fixed-width arithmetic of u8 and u16 *)

U8(n) == n % 256
U16(n) == n % 65536

RECURSIVE BitAnd(_, _)
BitAnd(a, b) ==
    IF a = 0 \/ b = 0 THEN 0
    ELSE (a % 2) * (b % 2) + 2 * BitAnd(a \div 2, b \div 2)

RECURSIVE BitOr(_, _)
BitOr(a, b) ==
    IF a = 0 THEN b
    ELSE IF b = 0 THEN a
    ELSE (IF a % 2 = 1 \/ b % 2 = 1 THEN 1 ELSE 0) + 2 * BitOr(a \div 2, b \div 2)

\* !b on a u8
BitNot8(b) == 255 - b

\* a.wrapping_add(b), a.wrapping_sub(b) on u8 and u16
WrappingAdd8(a, b) == (a + b) % 256
WrappingSub8(a, b) == (a - b + 256) % 256
WrappingAdd16(a, b) == (a + b) % 65536

----------------------------------------------------------------------------
(* Memory (src/src/memory.rs) *)

\* Memory::new storing the start address high byte first
MemoryNewHighByteFirst(addr) ==
    IF addr = POWER_ON_RESET_ADDR_L THEN UNRESERVED_MEMORY_ADDR_START \div 256
    ELSE IF addr = POWER_ON_RESET_ADDR_H THEN U8(UNRESERVED_MEMORY_ADDR_START)
    ELSE 0

\* the array Memory::new builds, cell by cell
MemoryNew(addr) ==
    IF addr = POWER_ON_RESET_ADDR_L THEN U8(UNRESERVED_MEMORY_ADDR_START)
    ELSE IF addr = POWER_ON_RESET_ADDR_H THEN UNRESERVED_MEMORY_ADDR_START \div 256
    ELSE 0

\* Memory::read
MemoryRead(mem, addr) ==
    IF addr \in DOMAIN mem THEN mem[addr] ELSE MemoryNew(addr)

\* Memory::write on an array of half the size, the upper half mirroring the lower
MemoryWriteMirrored(mem, byte, addr) ==
    [a \in DOMAIN mem \cup {addr % 32768} |-> IF a = addr % 32768 THEN byte ELSE mem[a]]

\* Memory::write
MemoryWrite(mem, byte, addr) ==
    [a \in DOMAIN mem \cup {addr} |-> IF a = addr THEN byte ELSE mem[a]]

----------------------------------------------------------------------------
(* The CPU as a value: the operators below take and return such records.   *)
(* `overflow_checks` is the build's setting (on in a debug build, off in a *)
(* release build); `panic` records a panic raised on the way.              *)

Machine(checks) ==
    [ acc |-> acc, x |-> x, y |-> y, sp |-> sp, pc |-> pc, status |-> status,
      cycles |-> cycles, memory |-> memory, bus |-> <<>>,
      overflow_checks |-> checks, panic |-> "none" ]

\* CPU::new
CPUNew ==
    [ acc |-> 0, x |-> 0, y |-> 0, sp |-> 0, pc |-> 0, status |-> 0, cycles |-> 0 ]

\* self.memory.borrow().read(addr), noted on the bus log
BusRead(c, addr) == [c EXCEPT !.bus = Append(@, <<"r", addr>>)]

\* self.memory.borrow_mut().write(byte, addr), noted on the bus log
BusWrite(c, byte, addr) ==
    [c EXCEPT !.memory = MemoryWrite(@, byte, addr),
              !.bus = Append(@, <<"w", addr, byte>>)]

\* reset that leaves the status register as it finds it
reset_keeps_status(c) ==
    LET h == MemoryRead(c.memory, POWER_ON_RESET_ADDR_H)
        l == MemoryRead(c.memory, POWER_ON_RESET_ADDR_L)
        c1 == BusRead(BusRead(c, POWER_ON_RESET_ADDR_H), POWER_ON_RESET_ADDR_L)
    IN  [c1 EXCEPT !.acc = CPU_DEFAULT_ACC,
                   !.x = CPU_DEFAULT_X,
                   !.y = CPU_DEFAULT_Y,
                   !.sp = CPU_DEFAULT_SP,
                   !.pc = BitOr(h * 256, l),
                   !.cycles = RESET_CYCLES]

\* CPU::reset
reset(c) ==
    LET h == MemoryRead(c.memory, POWER_ON_RESET_ADDR_H)
        l == MemoryRead(c.memory, POWER_ON_RESET_ADDR_L)
        c1 == BusRead(BusRead(c, POWER_ON_RESET_ADDR_H), POWER_ON_RESET_ADDR_L)
    IN  [c1 EXCEPT !.acc = CPU_DEFAULT_ACC,
                   !.x = CPU_DEFAULT_X,
                   !.y = CPU_DEFAULT_Y,
                   !.sp = CPU_DEFAULT_SP,
                   !.pc = BitOr(h * 256, l),
                   !.status = CPU_DEFAULT_STATUS,
                   !.cycles = RESET_CYCLES]

\* increment_pc that stops at $FFFF instead of wrapping to $0000
increment_pc_saturating(c) == [c EXCEPT !.pc = IF @ = 65535 THEN @ ELSE @ + 1]

\* CPU::increment_pc
increment_pc(c) == [c EXCEPT !.pc = WrappingAdd16(@, 1)]

\* CPU::fetch_byte: the result is [c |-> the CPU afterwards, v |-> the byte]
fetch_byte(c) ==
    [c |-> [increment_pc(BusRead(c, c.pc)) EXCEPT !.cycles = @ + 1],
     v |-> MemoryRead(c.memory, c.pc)]

\* CPU::fetch_addr
fetch_addr(c) ==
    LET join(l, h) == [c |-> h.c, v |-> BitOr(h.v * 256, l.v)]
        high(l) == join(l, fetch_byte(l.c))
    IN  high(fetch_byte(c))

\* CPU::read_byte
read_byte(c, addr) ==
    [c |-> [BusRead(c, addr) EXCEPT !.cycles = @ + 1],
     v |-> MemoryRead(c.memory, addr)]

\* CPU::read_addr
read_addr(c, low, high) ==
    LET join(l, h) == [c |-> h.c, v |-> BitOr(h.v * 256, l.v)]
        second(l) == join(l, read_byte(l.c, high))
    IN  second(read_byte(c, low))

\* write_byte that treats the reset vector as read-only memory
write_byte_protects_vector(c, byte, addr) ==
    IF addr \in {POWER_ON_RESET_ADDR_L, POWER_ON_RESET_ADDR_H}
    THEN [c EXCEPT !.bus = Append(@, <<"w", addr, byte>>), !.cycles = @ + 1]
    ELSE [BusWrite(c, byte, addr) EXCEPT !.cycles = @ + 1]

\* CPU::write_byte
write_byte(c, byte, addr) ==
    [BusWrite(c, byte, addr) EXCEPT !.cycles = @ + 1]

\* push_byte_to_stack with a stack pointer that stops at $00 instead of wrapping
push_byte_to_stack_saturating(c, byte) ==
    LET stack_addr == BitOr(c.sp, SYS_STACK_ADDR_END)
    IN  [BusWrite(c, byte, stack_addr) EXCEPT !.sp = IF @ = 0 THEN 0 ELSE @ - 1,
                                              !.cycles = @ + 1]

\* push_byte_to_stack decreasing SP before the write instead of after it
push_byte_to_stack_pre_decrement(c, byte) ==
    LET write(c1) == [BusWrite(c1, byte, BitOr(c1.sp, SYS_STACK_ADDR_END))
                         EXCEPT !.cycles = @ + 1]
    IN  write([c EXCEPT !.sp = WrappingSub8(@, 1)])

\* CPU::push_byte_to_stack
push_byte_to_stack(c, byte) ==
    LET stack_addr == BitOr(c.sp, SYS_STACK_ADDR_END)
    IN  [BusWrite(c, byte, stack_addr) EXCEPT !.sp = WrappingSub8(@, 1),
                                              !.cycles = @ + 1]

\* CPU::push_addr_to_stack
push_addr_to_stack(c, addr) ==
    LET addr_h == U8(addr \div 256)
        addr_l == U8(addr)
    IN  push_byte_to_stack(push_byte_to_stack(c, addr_h), addr_l)

\* pop_byte_from_stack reading the cell at SP and incrementing SP afterwards
pop_byte_from_stack_post_increment(c) ==
    LET read(c1, stack_addr) ==
            [c |-> [BusRead(c1, stack_addr) EXCEPT !.sp = WrappingAdd8(@, 1),
                                                   !.cycles = @ + 2],
             v |-> MemoryRead(c1.memory, stack_addr)]
    IN  read(c, BitOr(c.sp, SYS_STACK_ADDR_END))

\* pop_byte_from_stack clearing the cell it has read
pop_byte_from_stack_clears_cell(c) ==
    LET read(c1, stack_addr) ==
            [c |-> [BusWrite(BusRead(c1, stack_addr), 0, stack_addr)
                       EXCEPT !.cycles = @ + 2],
             v |-> MemoryRead(c1.memory, stack_addr)]
        bumped(c1) == read(c1, BitOr(c1.sp, SYS_STACK_ADDR_END))
    IN  bumped([c EXCEPT !.sp = WrappingAdd8(@, 1)])

\* CPU::pop_byte_from_stack
pop_byte_from_stack(c) ==
    LET read(c1, stack_addr) ==
            [c |-> [BusRead(c1, stack_addr) EXCEPT !.cycles = @ + 2],
             v |-> MemoryRead(c1.memory, stack_addr)]
        bumped(c1) == read(c1, BitOr(c1.sp, SYS_STACK_ADDR_END))
    IN  bumped([c EXCEPT !.sp = WrappingAdd8(@, 1)])

\* CPU::pop_addr_from_stack
pop_addr_from_stack(c) ==
    LET join(l, h) == [c |-> h.c, v |-> BitOr(h.v * 256, l.v)]
        second(l) == join(l, pop_byte_from_stack(l.c))
    IN  second(pop_byte_from_stack(c))

\* CPU::byte_is_negative_int
byte_is_negative_int(byte) == BitAnd(byte, 128) # 0

\* page_crossed with the low byte masked instead of the high byte
page_crossed_low_mask(addr_a, addr_b) == BitAnd(addr_a, 255) # BitAnd(addr_b, 255)

\* CPU::page_crossed
page_crossed(addr_a, addr_b) == BitAnd(addr_a, 65280) # BitAnd(addr_b, 65280)

----------------------------------------------------------------------------
(* Arithmetic with the `+` and `-` operators of Rust: a build with         *)
(* overflow checks panics where the result leaves the type, a build        *)
(* without them wraps.                                                     *)

\* does `a + b` (b may be negative) on a u16 panic in the build of c
Overflows16(c, a, b) == c.overflow_checks /\ (a + b < 0 \/ a + b > 65535)

\* the value of `a + b` on a u16 where it does not panic
Arith16(a, b) == (a + b + 65536) % 65536

Panic(c, what) == [c EXCEPT !.panic = what]

----------------------------------------------------------------------------
(* Jumps (src/src/cpu/jumps) *)

jmp_abs(c) ==
    LET jump(a) == [a.c EXCEPT !.pc = a.v]
    IN  jump(fetch_addr(c))

\* jmp_ind reading the high byte at ind_addr + 1 also when ind_addr ends a page
jmp_ind_no_page_wrap(c) ==
    LET jump(a) == [a.c EXCEPT !.pc = a.v]
        body(f, ind_addr) ==
            IF ind_addr = POWER_ON_RESET_ADDR_L
            THEN reset(f.c)
            ELSE jump(read_addr(f.c, ind_addr, WrappingAdd16(ind_addr, 1)))
        fetched(f) == body(f, f.v)
    IN  fetched(fetch_addr(c))

\* jmp_ind treating the reset vector as any other address
jmp_ind_no_reset(c) ==
    LET jump(a) == [a.c EXCEPT !.pc = a.v]
        body(f, ind_addr) ==
            IF BitAnd(ind_addr, 255) = 255
            THEN jump(read_addr(f.c, ind_addr, BitAnd(ind_addr, 65280)))
            ELSE IF Overflows16(f.c, ind_addr, 1)
            THEN Panic(f.c, "Overflow")
            ELSE jump(read_addr(f.c, ind_addr, Arith16(ind_addr, 1)))
        fetched(f) == body(f, f.v)
    IN  fetched(fetch_addr(c))

jmp_ind(c) ==
    LET jump(a) == [a.c EXCEPT !.pc = a.v]
        body(f, ind_addr) ==
            IF BitAnd(ind_addr, 255) = 255
            THEN jump(read_addr(f.c, ind_addr, BitAnd(ind_addr, 65280)))
            ELSE IF ind_addr = POWER_ON_RESET_ADDR_L
            THEN reset(f.c)
            ELSE IF Overflows16(f.c, ind_addr, 1)
            THEN Panic(f.c, "Overflow")
            ELSE jump(read_addr(f.c, ind_addr, Arith16(ind_addr, 1)))
        fetched(f) == body(f, f.v)
    IN  fetched(fetch_addr(c))

\* jsr pushing the address of the next instruction instead of the one before it
jsr_pushes_next_instruction(c) ==
    LET jump(p, addr) == [p EXCEPT !.pc = addr, !.cycles = @ + 1]
        body(f) == jump(push_addr_to_stack(f.c, f.c.pc), f.v)
    IN  body(fetch_addr(c))

jsr(c) ==
    LET jump(p, addr) == [p EXCEPT !.pc = addr, !.cycles = @ + 1]
        body(f) ==
            IF Overflows16(f.c, f.c.pc, -1)
            THEN Panic(f.c, "Overflow")
            ELSE jump(push_addr_to_stack(f.c, Arith16(f.c.pc, -1)), f.v)
    IN  body(fetch_addr(c))

rts(c) ==
    LET body(a) ==
            IF Overflows16(a.c, a.v, 1)
            THEN Panic(a.c, "Overflow")
            ELSE [a.c EXCEPT !.pc = Arith16(a.v, 1), !.cycles = @ + 1]
    IN  body(pop_addr_from_stack(c))

----------------------------------------------------------------------------
(* Loads (src/src/cpu/load_ops) *)

\* lda_set_status without clearing Z and N first
lda_set_status_no_clear(c) ==
    IF c.acc = 0 THEN [c EXCEPT !.status = BitOr(@, CSF_ZERO)]
    ELSE IF byte_is_negative_int(c.acc) THEN [c EXCEPT !.status = BitOr(@, CSF_NEGATIVE)]
    ELSE c

lda_set_status(c) ==
    LET c1 == [c EXCEPT !.status = BitAnd(@, BitNot8(BitOr(CSF_ZERO, CSF_NEGATIVE)))]
    IN  IF c1.acc = 0 THEN [c1 EXCEPT !.status = BitOr(@, CSF_ZERO)]
        ELSE IF byte_is_negative_int(c1.acc) THEN [c1 EXCEPT !.status = BitOr(@, CSF_NEGATIVE)]
        ELSE c1

lda_immediate(c) ==
    LET load(f) == lda_set_status([f.c EXCEPT !.acc = f.v])
    IN  load(fetch_byte(c))

lda_zero_page(c) ==
    LET load(r) == lda_set_status([r.c EXCEPT !.acc = r.v])
        addressed(f) == load(read_byte(f.c, f.v))
    IN  addressed(fetch_byte(c))

\* lda_zero_page_x adding the index in 16 bits, so that the address leaves page 0
lda_zero_page_x_no_wrap(c) ==
    LET load(r) == lda_set_status([r.c EXCEPT !.acc = r.v])
        addressed(f) ==
            load(read_byte([f.c EXCEPT !.cycles = @ + 1], f.c.x + f.v))
    IN  addressed(fetch_byte(c))

lda_zero_page_x(c) ==
    LET load(r) == lda_set_status([r.c EXCEPT !.acc = r.v])
        addressed(f) ==
            load(read_byte([f.c EXCEPT !.cycles = @ + 1], WrappingAdd8(f.c.x, f.v)))
    IN  addressed(fetch_byte(c))

lda_absolute(c) ==
    LET load(r) == lda_set_status([r.c EXCEPT !.acc = r.v])
        addressed(f) == load(read_byte(f.c, f.v))
    IN  addressed(fetch_addr(c))

\* lda_absolute_x with an effective address that stops at $FFFF instead of
\* wrapping to $0000
lda_absolute_x_saturating(c) ==
    LET load(r) == lda_set_status([r.c EXCEPT !.acc = r.v])
        indexed(f, abs_addr, eff_addr) ==
            load(read_byte(IF page_crossed(abs_addr, eff_addr)
                           THEN [f.c EXCEPT !.cycles = @ + 1]
                           ELSE f.c,
                           eff_addr))
        addressed(f) ==
            indexed(f, f.v, IF f.v + f.c.x > 65535 THEN 65535 ELSE f.v + f.c.x)
    IN  addressed(fetch_addr(c))

lda_absolute_x(c) ==
    LET load(r) == lda_set_status([r.c EXCEPT !.acc = r.v])
        indexed(f, abs_addr, eff_addr) ==
            load(read_byte(IF page_crossed(abs_addr, eff_addr)
                           THEN [f.c EXCEPT !.cycles = @ + 1]
                           ELSE f.c,
                           eff_addr))
        addressed(f) == indexed(f, f.v, WrappingAdd16(f.v, f.c.x))
    IN  addressed(fetch_addr(c))

lda_absolute_y(c) ==
    LET load(r) == lda_set_status([r.c EXCEPT !.acc = r.v])
        indexed(f, abs_addr, eff_addr) ==
            load(read_byte(IF page_crossed(abs_addr, eff_addr)
                           THEN [f.c EXCEPT !.cycles = @ + 1]
                           ELSE f.c,
                           eff_addr))
        addressed(f) == indexed(f, f.v, WrappingAdd16(f.v, f.c.y))
    IN  addressed(fetch_addr(c))

\* lda_indirect_x reading the high byte of the pointer at addr + 1 in 16 bits
lda_indirect_x_no_wrap(c) ==
    LET load(r) == lda_set_status([r.c EXCEPT !.acc = r.v])
        pointed(e) == load(read_byte(e.c, e.v))
        indexed(f, addr) ==
            pointed(read_addr([f.c EXCEPT !.cycles = @ + 1], addr, addr + 1))
        addressed(f) == indexed(f, WrappingAdd8(f.v, f.c.x))
    IN  addressed(fetch_byte(c))

lda_indirect_x(c) ==
    LET load(r) == lda_set_status([r.c EXCEPT !.acc = r.v])
        pointed(e) == load(read_byte(e.c, e.v))
        indexed(f, addr) ==
            pointed(read_addr([f.c EXCEPT !.cycles = @ + 1], addr, WrappingAdd8(addr, 1)))
        addressed(f) == indexed(f, WrappingAdd8(f.v, f.c.x))
    IN  addressed(fetch_byte(c))

lda_indirect_y(c) ==
    LET load(r) == lda_set_status([r.c EXCEPT !.acc = r.v])
        indexed(a, eff_addr) ==
            load(read_byte(IF page_crossed(a.v, eff_addr)
                           THEN [a.c EXCEPT !.cycles = @ + 1]
                           ELSE a.c,
                           eff_addr))
        pointed(a) == indexed(a, WrappingAdd16(a.v, a.c.y))
        addressed(f) == pointed(read_addr(f.c, f.v, WrappingAdd8(f.v, 1)))
    IN  addressed(fetch_byte(c))

ldx_set_status(c) ==
    LET c1 == [c EXCEPT !.status = BitAnd(@, BitNot8(BitOr(CSF_ZERO, CSF_NEGATIVE)))]
    IN  IF c1.x = 0 THEN [c1 EXCEPT !.status = BitOr(@, CSF_ZERO)]
        ELSE IF byte_is_negative_int(c1.x) THEN [c1 EXCEPT !.status = BitOr(@, CSF_NEGATIVE)]
        ELSE c1

ldx_immediate(c) ==
    LET load(f) == ldx_set_status([f.c EXCEPT !.x = f.v])
    IN  load(fetch_byte(c))

ldx_zero_page(c) ==
    LET load(r) == ldx_set_status([r.c EXCEPT !.x = r.v])
        addressed(f) == load(read_byte(f.c, f.v))
    IN  addressed(fetch_byte(c))

ldx_zero_page_y(c) ==
    LET load(r) == ldx_set_status([r.c EXCEPT !.x = r.v])
        addressed(f) ==
            load(read_byte([f.c EXCEPT !.cycles = @ + 1], WrappingAdd8(f.c.y, f.v)))
    IN  addressed(fetch_byte(c))

ldx_absolute(c) ==
    LET load(r) == ldx_set_status([r.c EXCEPT !.x = r.v])
        addressed(f) == load(read_byte(f.c, f.v))
    IN  addressed(fetch_addr(c))

ldx_absolute_y(c) ==
    LET load(r) == ldx_set_status([r.c EXCEPT !.x = r.v])
        indexed(f, abs_addr, eff_addr) ==
            load(read_byte(IF page_crossed(abs_addr, eff_addr)
                           THEN [f.c EXCEPT !.cycles = @ + 1]
                           ELSE f.c,
                           eff_addr))
        addressed(f) == indexed(f, f.v, WrappingAdd16(f.v, f.c.y))
    IN  addressed(fetch_addr(c))

ldy_set_status(c) ==
    LET c1 == [c EXCEPT !.status = BitAnd(@, BitNot8(BitOr(CSF_ZERO, CSF_NEGATIVE)))]
    IN  IF c1.y = 0 THEN [c1 EXCEPT !.status = BitOr(@, CSF_ZERO)]
        ELSE IF byte_is_negative_int(c1.y) THEN [c1 EXCEPT !.status = BitOr(@, CSF_NEGATIVE)]
        ELSE c1

ldy_immediate(c) ==
    LET load(f) == ldy_set_status([f.c EXCEPT !.y = f.v])
    IN  load(fetch_byte(c))

ldy_zero_page(c) ==
    LET load(r) == ldy_set_status([r.c EXCEPT !.y = r.v])
        addressed(f) == load(read_byte(f.c, f.v))
    IN  addressed(fetch_byte(c))

ldy_zero_page_x(c) ==
    LET load(r) == ldy_set_status([r.c EXCEPT !.y = r.v])
        addressed(f) ==
            load(read_byte([f.c EXCEPT !.cycles = @ + 1], WrappingAdd8(f.c.x, f.v)))
    IN  addressed(fetch_byte(c))

ldy_absolute(c) ==
    LET load(r) == ldy_set_status([r.c EXCEPT !.y = r.v])
        addressed(f) == load(read_byte(f.c, f.v))
    IN  addressed(fetch_addr(c))

ldy_absolute_x(c) ==
    LET load(r) == ldy_set_status([r.c EXCEPT !.y = r.v])
        indexed(f, abs_addr, eff_addr) ==
            load(read_byte(IF page_crossed(abs_addr, eff_addr)
                           THEN [f.c EXCEPT !.cycles = @ + 1]
                           ELSE f.c,
                           eff_addr))
        addressed(f) == indexed(f, f.v, WrappingAdd16(f.v, f.c.x))
    IN  addressed(fetch_addr(c))

----------------------------------------------------------------------------
(* Stores (src/src/cpu/store_ops) *)

sta_zero_page(c) ==
    LET store(f) == write_byte(f.c, f.c.acc, f.v)
    IN  store(fetch_byte(c))

sta_zero_page_x(c) ==
    LET store(f) ==
            write_byte([f.c EXCEPT !.cycles = @ + 1], f.c.acc, WrappingAdd8(f.v, f.c.x))
    IN  store(fetch_byte(c))

sta_absolute(c) ==
    LET store(f) == write_byte(f.c, f.c.acc, f.v)
    IN  store(fetch_addr(c))

\* sta_absolute_x paying the extra cycle only on a page crossing, as the loads do
sta_absolute_x_penalty_on_crossing(c) ==
    LET indexed(f, eff_addr) ==
            write_byte(IF page_crossed(f.v, eff_addr)
                       THEN [f.c EXCEPT !.cycles = @ + 1]
                       ELSE f.c,
                       f.c.acc, eff_addr)
        store(f) == indexed(f, WrappingAdd16(f.v, f.c.x))
    IN  store(fetch_addr(c))

sta_absolute_x(c) ==
    LET store(f) ==
            write_byte([f.c EXCEPT !.cycles = @ + 1], f.c.acc, WrappingAdd16(f.v, f.c.x))
    IN  store(fetch_addr(c))

sta_absolute_y(c) ==
    LET store(f) ==
            write_byte([f.c EXCEPT !.cycles = @ + 1], f.c.acc, WrappingAdd16(f.v, f.c.y))
    IN  store(fetch_addr(c))

sta_indirect_x(c) ==
    LET store(e) == write_byte(e.c, e.c.acc, e.v)
        indexed(f, ind_addr) ==
            store(read_addr([f.c EXCEPT !.cycles = @ + 1], ind_addr, WrappingAdd8(ind_addr, 1)))
        addressed(f) == indexed(f, WrappingAdd8(f.v, f.c.x))
    IN  addressed(fetch_byte(c))

\* sta_indirect_y adding X to the pointer instead of Y
sta_indirect_y_indexed_by_x(c) ==
    LET store(a) ==
            write_byte([a.c EXCEPT !.cycles = @ + 1], a.c.acc, WrappingAdd16(a.v, a.c.x))
        addressed(f) == store(read_addr(f.c, f.v, WrappingAdd8(f.v, 1)))
    IN  addressed(fetch_byte(c))

sta_indirect_y(c) ==
    LET store(a) ==
            write_byte([a.c EXCEPT !.cycles = @ + 1], a.c.acc, WrappingAdd16(a.v, a.c.y))
        addressed(f) == store(read_addr(f.c, f.v, WrappingAdd8(f.v, 1)))
    IN  addressed(fetch_byte(c))

stx_zero_page(c) ==
    LET store(f) == write_byte(f.c, f.c.x, f.v)
    IN  store(fetch_byte(c))

stx_zero_page_y(c) ==
    LET store(f) ==
            write_byte([f.c EXCEPT !.cycles = @ + 1], f.c.x, WrappingAdd8(f.v, f.c.y))
    IN  store(fetch_byte(c))

stx_absolute(c) ==
    LET store(f) == write_byte(f.c, f.c.x, f.v)
    IN  store(fetch_addr(c))

sty_zero_page(c) ==
    LET store(f) == write_byte(f.c, f.c.y, f.v)
    IN  store(fetch_byte(c))

sty_zero_page_x(c) ==
    LET store(f) ==
            write_byte([f.c EXCEPT !.cycles = @ + 1], f.c.y, WrappingAdd8(f.v, f.c.x))
    IN  store(fetch_byte(c))

sty_absolute(c) ==
    LET store(f) == write_byte(f.c, f.c.y, f.v)
    IN  store(fetch_addr(c))

----------------------------------------------------------------------------
(* Stack operations (src/src/cpu/stack_ops, src/src/instructions/stack_ops) *)

pha(c) == [push_byte_to_stack(c, c.acc) EXCEPT !.cycles = @ + 1]

php(c) == [push_byte_to_stack(c, c.status) EXCEPT !.cycles = @ + 1]

pla_set_status(c) ==
    LET c1 == [c EXCEPT !.status = BitAnd(@, BitNot8(BitOr(CSF_ZERO, CSF_NEGATIVE)))]
    IN  IF c1.acc = 0 THEN [c1 EXCEPT !.status = BitOr(@, CSF_ZERO)]
        ELSE IF byte_is_negative_int(c1.acc) THEN [c1 EXCEPT !.status = BitOr(@, CSF_NEGATIVE)]
        ELSE c1

pla(c) ==
    LET pull(p) == pla_set_status([p.c EXCEPT !.acc = p.v, !.cycles = @ + 1])
    IN  pull(pop_byte_from_stack(c))

plp(c) ==
    LET pull(p) == [p.c EXCEPT !.status = p.v, !.cycles = @ + 1]
    IN  pull(pop_byte_from_stack(c))

tsx_set_status(c) ==
    LET c1 == [c EXCEPT !.status = BitAnd(@, BitNot8(BitOr(CSF_ZERO, CSF_NEGATIVE)))]
    IN  IF c1.x = 0 THEN [c1 EXCEPT !.status = BitOr(@, CSF_ZERO)]
        ELSE IF byte_is_negative_int(c1.x) THEN [c1 EXCEPT !.status = BitOr(@, CSF_NEGATIVE)]
        ELSE c1

\* txs setting Z and N from the byte moved, as TSX does
txs_sets_flags(c) ==
    [tsx_set_status([c EXCEPT !.sp = c.x]) EXCEPT !.cycles = @ + 1]

\* tsx moving SP through the accumulator
tsx_through_acc(c) ==
    [tsx_set_status([c EXCEPT !.acc = c.sp, !.x = c.sp]) EXCEPT !.cycles = @ + 1]

tsx(c) == [tsx_set_status([c EXCEPT !.x = c.sp]) EXCEPT !.cycles = @ + 1]

txs(c) == [c EXCEPT !.sp = c.x, !.cycles = @ + 1]

----------------------------------------------------------------------------
(* The dispatcher *)

\* the `match opcode` of CPU::execute_next_instruction
Dispatch(c, op) ==
    CASE op = Opcode.JMPAbs -> jmp_abs(c)
      [] op = Opcode.JMPInd -> jmp_ind(c)
      [] op = Opcode.JSR    -> jsr(c)
      [] op = Opcode.LDAImm -> lda_immediate(c)
      [] op = Opcode.LDAZpg -> lda_zero_page(c)
      [] op = Opcode.LDAZpx -> lda_zero_page_x(c)
      [] op = Opcode.LDAAbs -> lda_absolute(c)
      [] op = Opcode.LDAAbx -> lda_absolute_x(c)
      [] op = Opcode.LDAAby -> lda_absolute_y(c)
      [] op = Opcode.LDAIdx -> lda_indirect_x(c)
      [] op = Opcode.LDAIdy -> lda_indirect_y(c)
      [] op = Opcode.LDXImm -> ldx_immediate(c)
      [] op = Opcode.LDXZpg -> ldx_zero_page(c)
      [] op = Opcode.LDXZpy -> ldx_zero_page_y(c)
      [] op = Opcode.LDXAbs -> ldx_absolute(c)
      [] op = Opcode.LDXAby -> ldx_absolute_y(c)
      [] op = Opcode.LDYImm -> ldy_immediate(c)
      [] op = Opcode.LDYZpg -> ldy_zero_page(c)
      [] op = Opcode.LDYZpx -> ldy_zero_page_x(c)
      [] op = Opcode.LDYAbs -> ldy_absolute(c)
      [] op = Opcode.LDYAbx -> ldy_absolute_x(c)
      [] op = Opcode.PHA    -> pha(c)
      [] op = Opcode.PHP    -> php(c)
      [] op = Opcode.PLA    -> pla(c)
      [] op = Opcode.PLP    -> plp(c)
      [] op = Opcode.RTS    -> rts(c)
      [] op = Opcode.STAZpg -> sta_zero_page(c)
      [] op = Opcode.STAZpx -> sta_zero_page_x(c)
      [] op = Opcode.STAAbs -> sta_absolute(c)
      [] op = Opcode.STAAbx -> sta_absolute_x(c)
      [] op = Opcode.STAAby -> sta_absolute_y(c)
      [] op = Opcode.STAIdx -> sta_indirect_x(c)
      [] op = Opcode.STAIdy -> sta_indirect_y(c)
      [] op = Opcode.STXZpg -> stx_zero_page(c)
      [] op = Opcode.STXZpy -> stx_zero_page_y(c)
      [] op = Opcode.STXAbs -> stx_absolute(c)
      [] op = Opcode.STYZpg -> sty_zero_page(c)
      [] op = Opcode.STYZpx -> sty_zero_page_x(c)
      [] op = Opcode.STYAbs -> sty_absolute(c)
      [] op = Opcode.TSX    -> tsx(c)
      [] op = Opcode.TXS    -> txs(c)

\* execute_next_instruction skipping a byte that is no opcode
execute_next_instruction_skips(c) ==
    LET decode(f) ==
            IF f.v \notin OpcodeBytes
            THEN f.c
            ELSE Dispatch(f.c, f.v)
    IN  decode(fetch_byte(c))

\* execute_next_instruction rejecting the byte before it moves PC and the
\* cycle counter
execute_next_instruction_rejects_early(c) ==
    LET decode(f) ==
            IF f.v \notin OpcodeBytes
            THEN Panic(BusRead(c, c.pc), "InvalidOpcode")
            ELSE Dispatch(f.c, f.v)
    IN  decode(fetch_byte(c))

\* CPU::execute_next_instruction
execute_next_instruction(c) ==
    LET decode(f) ==
            IF f.v \notin OpcodeBytes
            THEN Panic(f.c, "InvalidOpcode")
            ELSE Dispatch(f.c, f.v)
    IN  decode(fetch_byte(c))

----------------------------------------------------------------------------
(* The instruction objects (src/src/instructions): what the decoder        *)
(* returns for an opcode byte.  `panic` records a panic raised on the way. *)

\* an instruction object; an operator that panics returns NoInstruction(what)
InstructionObject(kind, mode, code, nbytes, ncycles) ==
    [ kind |-> kind, addr_mode |-> mode, opcode |-> code,
      bytes |-> nbytes, cycles |-> ncycles, panic |-> "none" ]

NoInstruction(what) ==
    [ kind |-> "none", addr_mode |-> "none", opcode |-> 0,
      bytes |-> 0, cycles |-> 0, panic |-> what ]

\* JMP::new
JMP_new(addr_mode) ==
    CASE addr_mode = "Absolute"  -> InstructionObject("JMP", addr_mode, Opcode.JMPAbs, 3, 3)
      [] addr_mode = "IndirectX" -> InstructionObject("JMP", addr_mode, Opcode.JMPInd, 3, 5)
      [] OTHER -> NoInstruction("InvalidAddressingMode")

\* JSR::new
JSR_new == InstructionObject("JSR", "Absolute", Opcode.JSR, 3, 6)

\* RTS::new
RTS_new == InstructionObject("RTS", "Implied", Opcode.RTS, 1, 6)

\* LDA::new with the cycles of (Indirect,X) and (Indirect),Y exchanged
LDA_new_indirect_cycles_exchanged(addr_mode) ==
    CASE addr_mode = "Immediate" -> InstructionObject("LDA", addr_mode, Opcode.LDAImm, 2, 2)
      [] addr_mode = "ZeroPage"  -> InstructionObject("LDA", addr_mode, Opcode.LDAZpg, 2, 3)
      [] addr_mode = "ZeroPageX" -> InstructionObject("LDA", addr_mode, Opcode.LDAZpx, 2, 4)
      [] addr_mode = "Absolute"  -> InstructionObject("LDA", addr_mode, Opcode.LDAAbs, 3, 4)
      [] addr_mode = "AbsoluteX" -> InstructionObject("LDA", addr_mode, Opcode.LDAAbx, 3, 4)
      [] addr_mode = "AbsoluteY" -> InstructionObject("LDA", addr_mode, Opcode.LDAAby, 3, 4)
      [] addr_mode = "IndirectX" -> InstructionObject("LDA", addr_mode, Opcode.LDAIdx, 2, 5)
      [] addr_mode = "IndirectY" -> InstructionObject("LDA", addr_mode, Opcode.LDAIdy, 2, 6)
      [] OTHER -> NoInstruction("InvalidAddressingMode")

\* LDA::new
LDA_new(addr_mode) ==
    CASE addr_mode = "Immediate" -> InstructionObject("LDA", addr_mode, Opcode.LDAImm, 2, 2)
      [] addr_mode = "ZeroPage"  -> InstructionObject("LDA", addr_mode, Opcode.LDAZpg, 2, 3)
      [] addr_mode = "ZeroPageX" -> InstructionObject("LDA", addr_mode, Opcode.LDAZpx, 2, 4)
      [] addr_mode = "Absolute"  -> InstructionObject("LDA", addr_mode, Opcode.LDAAbs, 3, 4)
      [] addr_mode = "AbsoluteX" -> InstructionObject("LDA", addr_mode, Opcode.LDAAbx, 3, 4)
      [] addr_mode = "AbsoluteY" -> InstructionObject("LDA", addr_mode, Opcode.LDAAby, 3, 4)
      [] addr_mode = "IndirectX" -> InstructionObject("LDA", addr_mode, Opcode.LDAIdx, 2, 6)
      [] addr_mode = "IndirectY" -> InstructionObject("LDA", addr_mode, Opcode.LDAIdy, 2, 5)
      [] OTHER -> NoInstruction("InvalidAddressingMode")

\* InstructionDecoder::from_byte
from_byte(byte) ==
    IF byte \notin OpcodeBytes THEN NoInstruction("InvalidOpcode")
    ELSE CASE byte = Opcode.JMPAbs -> JMP_new("Absolute")
           [] byte = Opcode.JMPInd -> JMP_new("IndirectX")
           [] byte = Opcode.JSR    -> JSR_new
           [] byte = Opcode.RTS    -> RTS_new
           [] byte = Opcode.LDAImm -> LDA_new("Immediate")
           [] byte = Opcode.LDAZpg -> LDA_new("ZeroPage")
           [] byte = Opcode.LDAZpx -> LDA_new("ZeroPageX")
           [] byte = Opcode.LDAAbs -> LDA_new("Absolute")
           [] byte = Opcode.LDAAbx -> LDA_new("AbsoluteX")
           [] byte = Opcode.LDAAby -> LDA_new("AbsoluteY")
           [] byte = Opcode.LDAIdx -> LDA_new("IndirectX")
           [] byte = Opcode.LDAIdy -> LDA_new("IndirectY")
           [] OTHER -> NoInstruction("Unreachable")

----------------------------------------------------------------------------
(* The LDA instruction object at work (src/src/instructions/load_ops/lda.rs) *)

\* LDA::set_status_flags
LDA_set_status_flags(c) ==
    LET cleared(c1) ==
            IF c1.acc = 0 THEN [c1 EXCEPT !.status = BitOr(@, CSF_ZERO)]
            ELSE IF byte_is_negative_int(c1.acc)
            THEN [c1 EXCEPT !.status = BitOr(@, CSF_NEGATIVE)]
            ELSE c1
    IN  cleared([c EXCEPT !.status = BitAnd(@, BitNot8(BitOr(CSF_ZERO, CSF_NEGATIVE)))])

\* LDA::immediate
LDA_immediate(c) ==
    LET load(f) == LDA_set_status_flags([f.c EXCEPT !.acc = f.v])
    IN  load(fetch_byte(c))

\* LDA::zero_page
LDA_zero_page(c) ==
    LET load(r) == LDA_set_status_flags([r.c EXCEPT !.acc = r.v])
        addressed(f) == load(read_byte(f.c, f.v))
    IN  addressed(fetch_byte(c))

\* LDA::zero_page_x
LDA_zero_page_x(c) ==
    LET load(r) == LDA_set_status_flags([r.c EXCEPT !.acc = r.v])
        addressed(f) ==
            load(read_byte([f.c EXCEPT !.cycles = @ + 1], WrappingAdd8(f.c.x, f.v)))
    IN  addressed(fetch_byte(c))

\* LDA::absolute
LDA_absolute(c) ==
    LET load(r) == LDA_set_status_flags([r.c EXCEPT !.acc = r.v])
        addressed(f) == load(read_byte(f.c, f.v))
    IN  addressed(fetch_addr(c))

\* LDA::absolute_x
LDA_absolute_x(c) ==
    LET load(r) == LDA_set_status_flags([r.c EXCEPT !.acc = r.v])
        indexed(f, abs_addr, eff_addr) ==
            load(read_byte(IF page_crossed(abs_addr, eff_addr)
                           THEN [f.c EXCEPT !.cycles = @ + 1]
                           ELSE f.c,
                           eff_addr))
        addressed(f) == indexed(f, f.v, WrappingAdd16(f.v, f.c.x))
    IN  addressed(fetch_addr(c))

\* LDA::absolute_y
LDA_absolute_y(c) ==
    LET load(r) == LDA_set_status_flags([r.c EXCEPT !.acc = r.v])
        indexed(f, abs_addr, eff_addr) ==
            load(read_byte(IF page_crossed(abs_addr, eff_addr)
                           THEN [f.c EXCEPT !.cycles = @ + 1]
                           ELSE f.c,
                           eff_addr))
        addressed(f) == indexed(f, f.v, WrappingAdd16(f.v, f.c.y))
    IN  addressed(fetch_addr(c))

\* LDA::indirect_x
LDA_indirect_x(c) ==
    LET load(r) == LDA_set_status_flags([r.c EXCEPT !.acc = r.v])
        pointed(e) == load(read_byte(e.c, e.v))
        indexed(f, addr) ==
            pointed(read_addr([f.c EXCEPT !.cycles = @ + 1], addr, WrappingAdd8(addr, 1)))
        addressed(f) == indexed(f, WrappingAdd8(f.v, f.c.x))
    IN  addressed(fetch_byte(c))

\* LDA::indirect_y charging no cycle for a page crossing
LDA_indirect_y_no_penalty(c) ==
    LET load(r) == LDA_set_status_flags([r.c EXCEPT !.acc = r.v])
        pointed(e) == load(read_byte(e.c, WrappingAdd16(e.v, e.c.y)))
        addressed(f) == pointed(read_addr(f.c, f.v, WrappingAdd8(f.v, 1)))
    IN  addressed(fetch_byte(c))

\* LDA::indirect_y
LDA_indirect_y(c) ==
    LET load(r) == LDA_set_status_flags([r.c EXCEPT !.acc = r.v])
        indexed(e, addr, eff_addr) ==
            load(read_byte(IF page_crossed(addr, eff_addr)
                           THEN [e.c EXCEPT !.cycles = @ + 1]
                           ELSE e.c,
                           eff_addr))
        pointed(e) == indexed(e, e.v, WrappingAdd16(e.v, e.c.y))
        addressed(f) == pointed(read_addr(f.c, f.v, WrappingAdd8(f.v, 1)))
    IN  addressed(fetch_byte(c))

\* <LDA as Instruction>::execute
LDA_execute(i, c) ==
    CASE i.addr_mode = "Immediate" -> LDA_immediate(c)
      [] i.addr_mode = "ZeroPage"  -> LDA_zero_page(c)
      [] i.addr_mode = "ZeroPageX" -> LDA_zero_page_x(c)
      [] i.addr_mode = "Absolute"  -> LDA_absolute(c)
      [] i.addr_mode = "AbsoluteX" -> LDA_absolute_x(c)
      [] i.addr_mode = "AbsoluteY" -> LDA_absolute_y(c)
      [] i.addr_mode = "IndirectX" -> LDA_indirect_x(c)
      [] i.addr_mode = "IndirectY" -> LDA_indirect_y(c)
      [] OTHER -> Panic(c, "Unreachable")

----------------------------------------------------------------------------
(* The system: a driver that builds the memory and the CPU, loads a        *)
(* program, resets the CPU and calls execute_next_instruction (CPU::run,   *)
(* src/src/main.rs).                                                       *)

EmptyMemory == [a \in {} |-> 0]

\* what the claims compare the state after an instruction with
Snapshot(op) ==
    [ op |-> op, acc |-> acc, x |-> x, y |-> y, sp |-> sp, pc |-> pc,
      status |-> status, cycles |-> cycles, memory |-> memory ]

\* before, with the snapshot p put in front and the oldest ones dropped
Remember(p) ==
    LET longer(h) == IF Len(h) <= PairLength THEN h ELSE SubSeq(h, 1, PairLength)
    IN  longer(<<p>> \o before)

\* the operation the driver performs next: reset() on a new CPU, then
\* execute_next_instruction() again and again
Pending(checks) ==
    IF phase = "Created" THEN reset(Machine(checks))
    ELSE execute_next_instruction(Machine(checks))

\* the first cell the pending operation reads that nobody has written yet,
\* or -1 when there is none
Needed ==
    LET first(log) ==
            LET I == { i \in 1..Len(log) :
                         /\ log[i][1] = "r"
                         /\ log[i][2] \notin DOMAIN memory
                         /\ \A j \in 1..(i - 1) : ~(log[j][1] = "w" /\ log[j][2] = log[i][2]) }
            IN  IF I = {} THEN -1
                ELSE log[CHOOSE i \in I : \A k \in I : i <= k][2]
    IN  first(Pending(FALSE).bus)

\* the bytes the driver chooses from for cell addr
LoadChoices(addr) ==
    IF phase = "Created" THEN VectorBytes \cup {MemoryNew(addr)}
    ELSE IF addr = pc /\ Pending(FALSE).bus[1] = <<"r", addr>>
    THEN OpcodeBytes \cup {MemoryNew(addr)}
    ELSE DataBytes \cup {MemoryNew(addr)}

\* the CPU fields and the memory become those of m
Commit(m) ==
    /\ acc' = m.acc
    /\ x' = m.x
    /\ y' = m.y
    /\ sp' = m.sp
    /\ pc' = m.pc
    /\ status' = m.status
    /\ cycles' = m.cycles
    /\ memory' = m.memory
    /\ bus' = m.bus

Init ==
    /\ acc = CPUNew.acc
    /\ x = CPUNew.x
    /\ y = CPUNew.y
    /\ sp = CPUNew.sp
    /\ pc = CPUNew.pc
    /\ status = CPUNew.status
    /\ cycles = CPUNew.cycles
    /\ memory = EmptyMemory
    /\ phase = "Created"
    /\ deadline = MaxCycles
    /\ fault = "none"
    /\ last = "new"
    /\ pre = Snapshot(0)
    /\ before = <<>>
    /\ bus = <<>>

\* the driver writes the program byte the CPU is about to read
Load ==
    /\ phase \in {"Created", "Running"}
    /\ phase = "Running" => cycles < deadline
    /\ \E addr \in {Needed} :
         /\ addr # -1
         /\ \E b \in LoadChoices(addr) : memory' = MemoryWrite(memory, b, addr)
    /\ last' = "load"
    /\ UNCHANGED <<acc, x, y, sp, pc, status, cycles, phase, deadline, fault, pre, before, bus>>

\* the driver calls cpu.reset() on the CPU it has built (main.rs)
Reset ==
    /\ phase = "Created"
    /\ Needed = -1
    /\ Commit(reset(Machine(FALSE)))
    /\ phase' = "Running"
    /\ last' = "reset"
    /\ UNCHANGED <<deadline, fault, pre, before>>

\* execute_next_instruction runs an instruction to its end
Execute ==
    /\ phase = "Running"
    /\ cycles < deadline
    /\ Needed = -1
    /\ \E checks \in BOOLEAN :
         \E m \in {execute_next_instruction(Machine(checks))} :
             /\ m.panic = "none"
             /\ Commit(m)
    /\ pre' = Snapshot(MemoryRead(memory, pc))
    /\ before' = Remember(pre)
    /\ last' = "execute"
    /\ UNCHANGED <<phase, deadline, fault>>

\* execute_next_instruction panics: the process ends
ExecutePanics ==
    /\ phase = "Running"
    /\ cycles < deadline
    /\ Needed = -1
    /\ \E checks \in BOOLEAN :
         \E m \in {execute_next_instruction(Machine(checks))} :
             /\ m.panic # "none"
             /\ Commit(m)
             /\ fault' = m.panic
    /\ pre' = Snapshot(MemoryRead(memory, pc))
    /\ before' = Remember(pre)
    /\ phase' = "Halted"
    /\ last' = "execute"
    /\ UNCHANGED deadline

Next == Load \/ Reset \/ Execute \/ ExecutePanics

Spec == Init /\ [][Next]_vars

----------------------------------------------------------------------------
(* A second starting point: the driver has loaded a program that sets the  *)
(* registers, and the CPU has been reset and has run it.  The program is   *)
(*     LDX #s ; TXS ; PLP ; LDA #a ; LDX #x ; LDY #y                       *)
(* at UNRESERVED_MEMORY_ADDR_START, with byte p in the stack cell that PLP *)
(* pops.  Whatever follows it in memory is again the driver's choice.      *)

\* (s, p, a): the stack pointer before PLP, the byte PLP pops, the accumulator
SetupStacks == { <<254, 255, 127>>, <<255, 0, 255>>, <<0, 221, 0>> }

\* the values of X and Y
SetupIndexes == {0, 127, 255}

SetupInstructions(s, a, xv, yv) ==
    << <<Opcode.LDXImm, s>>, <<Opcode.TXS>>, <<Opcode.PLP>>, <<Opcode.LDAImm, a>>,
       <<Opcode.LDXImm, xv>>, <<Opcode.LDYImm, yv>> >>

RECURSIVE Flatten(_)
Flatten(ss) == IF ss = <<>> THEN <<>> ELSE Head(ss) \o Flatten(Tail(ss))

SetupProgram(s, a, xv, yv) == Flatten(SetupInstructions(s, a, xv, yv))

SetupLength == Len(SetupInstructions(0, 0, 0, 0))

\* the memory the driver has prepared: the program, the stack cell and the
\* reset vector as Memory::new left it
SetupImage(s, p, a, xv, yv) ==
    LET image(prog, code, cell, vect) ==
            [ a0 \in code \cup {cell} \cup vect |->
                IF a0 \in code THEN prog[a0 - UNRESERVED_MEMORY_ADDR_START + 1]
                ELSE IF a0 = cell THEN p
                ELSE MemoryNew(a0) ]
        placed(prog) ==
            image(prog,
                  { UNRESERVED_MEMORY_ADDR_START + i - 1 : i \in 1..Len(prog) },
                  BitOr(WrappingAdd8(s, 1), SYS_STACK_ADDR_END),
                  { POWER_ON_RESET_ADDR_L, POWER_ON_RESET_ADDR_H })
    IN  placed(SetupProgram(s, a, xv, yv))

\* n calls of execute_next_instruction, as CPU::run makes them
RECURSIVE Run(_, _)
Run(c, n) ==
    IF n = 0 THEN c
    ELSE Run(execute_next_instruction([c EXCEPT !.bus = <<>>]), n - 1)

\* the CPU after reset() and n instructions on memory image img
Booted(img, n) ==
    Run(reset([ acc |-> CPUNew.acc, x |-> CPUNew.x, y |-> CPUNew.y, sp |-> CPUNew.sp,
                pc |-> CPUNew.pc, status |-> CPUNew.status, cycles |-> CPUNew.cycles,
                memory |-> img, bus |-> <<>>, overflow_checks |-> FALSE,
                panic |-> "none" ]), n)

InitSetup ==
    \E t \in SetupStacks, xv \in SetupIndexes, yv \in SetupIndexes :
      \E img \in {SetupImage(t[1], t[2], t[3], xv, yv)} :
        \E b \in {Booted(img, SetupLength - 1)}, c \in {Booted(img, SetupLength)} :
            /\ acc = c.acc
            /\ x = c.x
            /\ y = c.y
            /\ sp = c.sp
            /\ pc = c.pc
            /\ status = c.status
            /\ cycles = c.cycles
            /\ memory = c.memory
            /\ bus = c.bus
            /\ pre = [ op |-> MemoryRead(b.memory, b.pc), acc |-> b.acc, x |-> b.x,
                       y |-> b.y, sp |-> b.sp, pc |-> b.pc, status |-> b.status,
                       cycles |-> b.cycles, memory |-> b.memory ]
            /\ before = <<>>
            /\ deadline = c.cycles + (MaxCycles - RESET_CYCLES)
            /\ phase = "Running"
            /\ fault = "none"
            /\ last = "execute"

NextSetup == Load \/ Execute \/ ExecutePanics

SpecSetup == InitSetup /\ [][NextSetup]_vars

----------------------------------------------------------------------------
(* A third driver: it runs programs of two instructions, a push or a call  *)
(* and then a pull or a return, either right after reset() for any reset   *)
(* vector or after the program of SpecSetup, and then stops.               *)

Leaders == { Opcode.PHP, Opcode.PHA, Opcode.JSR }

Followers == { Opcode.PLP, Opcode.PLA, Opcode.RTS }

\* the bytes the driver chooses from for cell addr of such a program
PairChoices(addr) ==
    IF phase = "Created" THEN LoadChoices(addr)
    ELSE IF addr = pc /\ Pending(FALSE).bus[1] = <<"r", addr>>
    THEN (IF Len(before) = 0 THEN Leaders ELSE Followers)
    ELSE DataBytes \cup {MemoryNew(addr)}

\* a memory in which a JSR opcode lies at $FFFD, so that its operand ends at
\* $FFFF: the byte is also the high byte of the reset vector, and the program
\* at the reset address is JMP $FFFD
TopImage ==
    LET start == Opcode.JSR * 256
    IN  [ a0 \in { POWER_ON_RESET_ADDR_L, POWER_ON_RESET_ADDR_H, start, start + 1, start + 2 } |->
            IF a0 = POWER_ON_RESET_ADDR_L THEN 0
            ELSE IF a0 = POWER_ON_RESET_ADDR_H THEN Opcode.JSR
            ELSE IF a0 = start THEN Opcode.JMPAbs
            ELSE IF a0 = start + 1 THEN POWER_ON_RESET_ADDR_H % 256
            ELSE POWER_ON_RESET_ADDR_H \div 256 ]

\* the CPU has been reset on TopImage and has run the JMP
InitTop ==
    \E b \in {Booted(TopImage, 0)}, c \in {Booted(TopImage, 1)} :
        /\ acc = c.acc
        /\ x = c.x
        /\ y = c.y
        /\ sp = c.sp
        /\ pc = c.pc
        /\ status = c.status
        /\ cycles = c.cycles
        /\ memory = c.memory
        /\ bus = c.bus
        /\ pre = [ op |-> MemoryRead(b.memory, b.pc), acc |-> b.acc, x |-> b.x,
                   y |-> b.y, sp |-> b.sp, pc |-> b.pc, status |-> b.status,
                   cycles |-> b.cycles, memory |-> b.memory ]
        /\ before = <<>>
        /\ deadline = c.cycles + (MaxCycles - RESET_CYCLES)
        /\ phase = "Running"
        /\ fault = "none"
        /\ last = "execute"

InitPairs == Init \/ InitSetup \/ InitTop

LoadPair ==
    /\ phase \in {"Created", "Running"}
    /\ Len(before) < PairLength
    /\ \E addr \in {Needed} :
         /\ addr # -1
         /\ \E b \in PairChoices(addr) : memory' = MemoryWrite(memory, b, addr)
    /\ last' = "load"
    /\ UNCHANGED <<acc, x, y, sp, pc, status, cycles, phase, deadline, fault, pre, before, bus>>

ExecutePair ==
    /\ phase = "Running"
    /\ Len(before) < PairLength
    /\ Needed = -1
    /\ \E checks \in BOOLEAN :
         \E m \in {execute_next_instruction(Machine(checks))} :
             /\ m.panic = "none"
             /\ Commit(m)
    /\ pre' = Snapshot(MemoryRead(memory, pc))
    /\ before' = Remember(pre)
    /\ last' = "execute"
    /\ UNCHANGED <<phase, deadline, fault>>

ExecutePairPanics ==
    /\ phase = "Running"
    /\ Len(before) < PairLength
    /\ Needed = -1
    /\ \E checks \in BOOLEAN :
         \E m \in {execute_next_instruction(Machine(checks))} :
             /\ m.panic # "none"
             /\ Commit(m)
             /\ fault' = m.panic
    /\ pre' = Snapshot(MemoryRead(memory, pc))
    /\ before' = Remember(pre)
    /\ phase' = "Halted"
    /\ last' = "execute"
    /\ UNCHANGED deadline

NextPairs == LoadPair \/ Reset \/ ExecutePair \/ ExecutePairPanics

SpecPairs == InitPairs /\ [][NextPairs]_vars

----------------------------------------------------------------------------
(* A fourth driver: it lets the program store a register into the reset    *)
(* vector, at most PairLength times, calls cpu.reset() again at any point  *)
(* and from then on only resets.                                           *)

Relocators == { Opcode.STAAbs, Opcode.STXAbs, Opcode.STYAbs }

\* the bytes the driver chooses from for cell addr of such a program: the
\* operand of each store is one of the two cells of the reset vector
RelocationChoices(addr) ==
    IF phase = "Created" THEN LoadChoices(addr)
    ELSE IF addr = pc /\ Pending(FALSE).bus[1] = <<"r", addr>> THEN Relocators
    ELSE IF addr = WrappingAdd16(pc, 1)
    THEN { POWER_ON_RESET_ADDR_L % 256, POWER_ON_RESET_ADDR_H % 256 }
    ELSE { POWER_ON_RESET_ADDR_L \div 256 }

InitReset == Init \/ InitSetup

LoadRelocation ==
    /\ phase \in {"Created", "Running"}
    /\ Len(before) < PairLength
    /\ \E addr \in {Needed} :
         /\ addr # -1
         /\ \E b \in RelocationChoices(addr) : memory' = MemoryWrite(memory, b, addr)
    /\ last' = "load"
    /\ UNCHANGED <<acc, x, y, sp, pc, status, cycles, phase, deadline, fault, pre, before, bus>>

\* the driver calls cpu.reset() on a CPU that has been reset before
ResetAgain ==
    /\ phase \in {"Running", "Restarted"}
    /\ Commit(reset(Machine(FALSE)))
    /\ phase' = "Restarted"
    /\ last' = "reset"
    /\ UNCHANGED <<deadline, fault, pre, before>>

NextReset == LoadRelocation \/ Reset \/ ExecutePair \/ ExecutePairPanics \/ ResetAgain

SpecReset == InitReset /\ [][NextReset]_vars

----------------------------------------------------------------------------
(* A fifth driver: it writes a call of a subroutine at the default reset   *)
(* address and the subroutine, which loads A and returns, somewhere else,  *)
(* resets the CPU and runs it to the end of what it has written.           *)

\* where the subroutine lies and what it loads
ScenarioTargets == {12354, 768, 1024, 32512, 49152, 65024}
ScenarioValues == {1, 0, 127, 128, 255}

\* JSR t at $0200 and LDA #v, RTS at t, in a memory as Memory::new left it
ScenarioImage(t, v) ==
    LET start == UNRESERVED_MEMORY_ADDR_START
    IN  [ a0 \in { POWER_ON_RESET_ADDR_L, POWER_ON_RESET_ADDR_H,
                   start, start + 1, start + 2, t, t + 1, t + 2 } |->
            IF a0 = start THEN Opcode.JSR
            ELSE IF a0 = start + 1 THEN t % 256
            ELSE IF a0 = start + 2 THEN t \div 256
            ELSE IF a0 = t THEN Opcode.LDAImm
            ELSE IF a0 = t + 1 THEN v
            ELSE IF a0 = t + 2 THEN Opcode.RTS
            ELSE MemoryNew(a0) ]

InitScenario ==
    /\ acc = CPUNew.acc
    /\ x = CPUNew.x
    /\ y = CPUNew.y
    /\ sp = CPUNew.sp
    /\ pc = CPUNew.pc
    /\ status = CPUNew.status
    /\ cycles = CPUNew.cycles
    /\ \E t \in ScenarioTargets, v \in ScenarioValues : memory = ScenarioImage(t, v)
    /\ phase = "Created"
    /\ deadline = MaxCycles
    /\ fault = "none"
    /\ last = "new"
    /\ pre = Snapshot(0)
    /\ before = <<>>
    /\ bus = <<>>

\* execute_next_instruction on an instruction the driver has written
ExecuteLoaded ==
    /\ phase = "Running"
    /\ Needed = -1
    /\ \E checks \in BOOLEAN :
         \E m \in {execute_next_instruction(Machine(checks))} :
             /\ m.panic = "none"
             /\ Commit(m)
    /\ pre' = Snapshot(MemoryRead(memory, pc))
    /\ before' = Remember(pre)
    /\ last' = "execute"
    /\ UNCHANGED <<phase, deadline, fault>>

NextScenario == Reset \/ ExecuteLoaded

SpecScenario == InitScenario /\ [][NextScenario]_vars

----------------------------------------------------------------------------
(* A sixth driver: it writes a program that sets SP, pushes a list of      *)
(* bytes with LDA # and PHA and pulls as many with PLA, resets the CPU and *)
(* runs it to the end of what it has written.                              *)

\* the longest list of bytes chosen freely
MaxDepth == 3

StackStarts == {255, 0, 1, 128}
StackValues == {0, 127, 255}

\* a list that fills the whole stack page, every byte a different one
FullPage == [i \in 1..SYS_STACK_ADDR_END |-> (3 * i) % 256]

StackLists ==
    UNION { [1..k -> StackValues] : k \in 1..MaxDepth } \cup {FullPage}

\* LDX #s, TXS, then LDA #v, PHA for each v of vs, then a PLA for each
StackProgram(s, vs) ==
    [ i \in 1..(3 + 4 * Len(vs)) |->
        IF i = 1 THEN Opcode.LDXImm
        ELSE IF i = 2 THEN s
        ELSE IF i = 3 THEN Opcode.TXS
        ELSE IF i > 3 + 3 * Len(vs) THEN Opcode.PLA
        ELSE IF (i - 4) % 3 = 0 THEN Opcode.LDAImm
        ELSE IF (i - 4) % 3 = 1 THEN vs[((i - 4) \div 3) + 1]
        ELSE Opcode.PHA ]

\* the program at the default reset address in a memory as Memory::new left it
StackImage(s, vs) ==
    LET image(prog, code) ==
            [ a0 \in code \cup {POWER_ON_RESET_ADDR_L, POWER_ON_RESET_ADDR_H} |->
                IF a0 \in code THEN prog[a0 - UNRESERVED_MEMORY_ADDR_START + 1]
                ELSE MemoryNew(a0) ]
        placed(prog) ==
            image(prog, { UNRESERVED_MEMORY_ADDR_START + i - 1 : i \in 1..Len(prog) })
    IN  placed(StackProgram(s, vs))

InitStack ==
    /\ acc = CPUNew.acc
    /\ x = CPUNew.x
    /\ y = CPUNew.y
    /\ sp = CPUNew.sp
    /\ pc = CPUNew.pc
    /\ status = CPUNew.status
    /\ cycles = CPUNew.cycles
    /\ \E s \in StackStarts, vs \in StackLists : memory = StackImage(s, vs)
    /\ phase = "Created"
    /\ deadline = MaxCycles
    /\ fault = "none"
    /\ last = "new"
    /\ pre = Snapshot(0)
    /\ before = <<>>
    /\ bus = <<>>

SpecStack == InitStack /\ [][NextScenario]_vars

----------------------------------------------------------------------------
(* What the claims speak about: the instruction that has just run          *)

\* execute_next_instruction has just returned (it did not panic)
Completed == last = "execute" /\ phase = "Running"

\* the cycles the instruction took
Delta == cycles - pre.cycles

\* the bytes after the opcode, as they were when the instruction started
Operand1 == MemoryRead(pre.memory, (pre.pc + 1) % 65536)
Operand2 == MemoryRead(pre.memory, (pre.pc + 2) % 65536)
AbsOperand == Operand2 * 256 + Operand1

\* the 16-bit pointer held in zero page at d and d + 1 (mod 256)
ZpPointer(d) == MemoryRead(pre.memory, (d + 1) % 256) * 256 + MemoryRead(pre.memory, d)

\* 1 when base and (base + index) mod 65536 lie in different pages
Penalty(base, index) ==
    IF (base \div 256) # (((base + index) % 65536) \div 256) THEN 1 ELSE 0

\* the byte on top of the stack when the instruction started
StackTop == MemoryRead(pre.memory, 256 + ((pre.sp + 1) % 256))

LoadsOfA ==
    { Opcode.LDAImm, Opcode.LDAZpg, Opcode.LDAZpx, Opcode.LDAAbs, Opcode.LDAAbx,
      Opcode.LDAAby, Opcode.LDAIdx, Opcode.LDAIdy, Opcode.PLA }
LoadsOfX ==
    { Opcode.LDXImm, Opcode.LDXZpg, Opcode.LDXZpy, Opcode.LDXAbs, Opcode.LDXAby, Opcode.TSX }
LoadsOfY ==
    { Opcode.LDYImm, Opcode.LDYZpg, Opcode.LDYZpx, Opcode.LDYAbs, Opcode.LDYAbx }

\* Z and N of P follow v, the other six bits are those of the P before
FlagsFollow(v) ==
    /\ (status \div 2) % 2 = 1 <=> v = 0
    /\ (status \div 128) % 2 = 1 <=> (v \div 128) % 2 = 1
    /\ \A i \in {0, 2, 3, 4, 5, 6} : (status \div 2^i) % 2 = (pre.status \div 2^i) % 2

----------------------------------------------------------------------------
(* The claims *)

\* C1: in every state reached from reset() by execute_next_instruction calls,
\* bit 5 of the status register is 1.
C1_Bit5AlwaysSet == phase # "Created" => (status \div 32) % 2 = 1

\* C2: every execute_next_instruction on a documented opcode leaves the cycle
\* counter greater than it was.
C2_CyclesIncrease ==
    (last = "execute" /\ pre.op \in OpcodeBytes) => cycles > pre.cycles

\* C3: execute_next_instruction on a documented opcode completes and the engine
\* stays Running: no arithmetic fault, also when the operand of JSR ends at
\* $FFFF or RTS pops $FFFF.
C3_NoArithmeticFault ==
    (last = "execute" /\ pre.op \in OpcodeBytes) => (phase = "Running" /\ fault = "none")

\* C4: a byte that is not a documented opcode makes execute_next_instruction
\* raise the InvalidOpcode fault (it is not skipped as a no-op), and nothing
\* is executed after a fault.
C4_InvalidOpcodeIsTerminal ==
    /\ [](last = "execute" /\ pre.op \notin OpcodeBytes
            => phase = "Halted" /\ fault = "InvalidOpcode")
    /\ [][phase # "Halted"]_vars

C4_Witness ==
    /\ last = "execute"
    /\ pre.op \notin OpcodeBytes
    /\ phase = "Halted"
    /\ fault = "InvalidOpcode"
    /\ pc = (pre.pc + 1) % 65536

\* C5: LDA abs,X, LDA abs,Y, LDX abs,Y and LDY abs,X take 4 cycles and
\* LDA (ind),Y takes 5, plus one exactly when the index moves the address
\* into another page.
C5_ReadPageCrossPenalty ==
    Completed =>
        /\ pre.op \in {Opcode.LDAAbx, Opcode.LDYAbx} => Delta = 4 + Penalty(AbsOperand, pre.x)
        /\ pre.op \in {Opcode.LDAAby, Opcode.LDXAby} => Delta = 4 + Penalty(AbsOperand, pre.y)
        /\ pre.op = Opcode.LDAIdy => Delta = 5 + Penalty(ZpPointer(Operand1), pre.y)

C5_Witness ==
    /\ Completed
    /\ pre.op = Opcode.LDAIdy
    /\ pre.y = 127
    /\ ZpPointer(Operand1) = 65535
    /\ Delta = 6

\* C6: STA abs,X and STA abs,Y take 5 cycles and STA (ind),Y takes 6, whether
\* or not the index moves the address into another page.
C6_IndexedStoreCost ==
    Completed =>
        /\ pre.op \in {Opcode.STAAbx, Opcode.STAAby} => Delta = 5
        /\ pre.op = Opcode.STAIdy => Delta = 6

C6_Witness ==
    /\ Completed
    /\ pre.op = Opcode.STAAbx
    /\ pre.x = 127
    /\ Penalty(AbsOperand, pre.x) = 0
    /\ Delta = 5

\* C7: PHA 3, PHP 3, PLA 4, PLP 4, TSX 2, TXS 2, JMP abs 3, JMP ind 5,
\* JSR 6 and RTS 6 cycles, for every state and operand.
C7_FixedCosts ==
    Completed =>
        /\ pre.op \in {Opcode.TSX, Opcode.TXS} => Delta = 2
        /\ pre.op \in {Opcode.PHA, Opcode.PHP, Opcode.JMPAbs} => Delta = 3
        /\ pre.op \in {Opcode.PLA, Opcode.PLP} => Delta = 4
        /\ pre.op = Opcode.JMPInd => Delta = 5
        /\ pre.op \in {Opcode.JSR, Opcode.RTS} => Delta = 6

\* C8: after a load into A, X or Y (LDA, LDX, LDY in every mode, PLA, TSX),
\* Z is set iff the new register value is 0, N iff its bit 7 is set, and
\* the other bits of P are as before.
C8_LoadFlags ==
    Completed =>
        /\ pre.op \in LoadsOfA => FlagsFollow(acc)
        /\ pre.op \in LoadsOfX => FlagsFollow(x)
        /\ pre.op \in LoadsOfY => FlagsFollow(y)

C8_Witness ==
    /\ Completed
    /\ pre.op = Opcode.PLA
    /\ pre.status = 127
    /\ acc = 252
    /\ status = 253

\* C9: after PLP pops b, P = (b AND $CF) OR $20 and SP has grown by 1 (mod 256).
C9_PlpMasksBAndU ==
    (Completed /\ pre.op = Opcode.PLP) =>
        /\ status = BitOr(BitAnd(StackTop, 207), 32)
        /\ sp = (pre.sp + 1) % 256

\* C10: PHP writes P with bit 4 set to $0100 | SP, leaves P as it was and
\* decrements SP by 1 (mod 256).
C10_PhpPushesBSet ==
    (Completed /\ pre.op = Opcode.PHP) =>
        /\ MemoryRead(memory, 256 + pre.sp) = BitOr(pre.status, 16)
        /\ status = pre.status
        /\ sp = (pre.sp + 255) % 256

\* the instruction before the last one: its opcode and the state it started in
Leader == before[1]

\* execute_next_instruction has returned twice in a row, for opcode l and then f
PairDone(l, f) ==
    /\ Completed
    /\ Len(before) >= 1
    /\ Leader.op = l
    /\ pre.op = f

\* bit i of byte b
Bit(b, i) == (b \div 2^i) % 2

\* C11: after PHP immediately followed by PLP, bits 0-3 and 6-7 of P are as
\* before the PHP, B = 0, U = 1, and SP is as before the PHP.
C11_PhpPlpRoundTrip ==
    PairDone(Opcode.PHP, Opcode.PLP) =>
        /\ \A i \in {0, 1, 2, 3, 6, 7} : Bit(status, i) = Bit(Leader.status, i)
        /\ Bit(status, 4) = 0
        /\ Bit(status, 5) = 1
        /\ sp = Leader.sp

\* C12: after PHA immediately followed by PLA, A and SP are as before the PHA
\* (also when SP = $00 and the push wraps to $FF), Z = 1 iff A = 0 and N = 1
\* iff bit 7 of A is set.
C12_PhaPlaRoundTrip ==
    PairDone(Opcode.PHA, Opcode.PLA) =>
        /\ acc = Leader.acc
        /\ sp = Leader.sp
        /\ Bit(status, 1) = 1 <=> acc = 0
        /\ Bit(status, 7) = 1 <=> Bit(acc, 7) = 1

C12_Witness ==
    /\ PairDone(Opcode.PHA, Opcode.PLA)
    /\ Leader.sp = 0
    /\ Leader.acc = 255
    /\ pre.sp = 255
    /\ MemoryRead(memory, 256) = 255
    /\ sp = 0
    /\ acc = 255
    /\ Bit(status, 7) = 1

\* C13: JSR, wherever it is located, followed by an RTS at its target ends
\* with PC at the address of the JSR opcode plus 3 (mod 65536) and SP as
\* before the JSR, also when the pushes wrap inside the stack page.
C13_JsrRtsRoundTrip ==
    /\ (last = "execute" /\ pre.op = Opcode.JSR) => Completed
    /\ (last = "execute" /\ pre.op = Opcode.RTS /\ Len(before) >= 1
            /\ Leader.op = Opcode.JSR) =>
          /\ Completed
          /\ pc = (Leader.pc + 3) % 65536
          /\ sp = Leader.sp

\* the instruction of opcode op has just been called, whether or not it returned
Called(op) == last = "execute" /\ pre.op = op

\* the stack cell that SP = s points at
StackCell(s) == 256 + (s % 256)

\* C14: JSR writes the high byte of (opcode address + 2) at $0100 | SP and the
\* low byte at $0100 | ((SP - 1) mod 256), decreases SP by 2, sets PC to the
\* operand and leaves A, X, Y and P as they were.
C14_JsrPushesReturnAddress ==
    Called(Opcode.JSR) =>
        /\ Completed
        /\ MemoryRead(memory, StackCell(pre.sp)) = ((pre.pc + 2) % 65536) \div 256
        /\ MemoryRead(memory, StackCell(pre.sp + 255)) = ((pre.pc + 2) % 65536) % 256
        /\ sp = (pre.sp + 254) % 256
        /\ pc = AbsOperand
        /\ acc = pre.acc /\ x = pre.x /\ y = pre.y /\ status = pre.status

\* C15: RTS, whatever the stack holds, reads the low byte at
\* $0100 | ((SP + 1) mod 256) and the high byte at $0100 | ((SP + 2) mod 256),
\* sets PC to (that address + 1) mod 65536, increases SP by 2 and leaves
\* A, X, Y, P and memory as they were.
C15_RtsPopsReturnAddress ==
    Called(Opcode.RTS) =>
        /\ Completed
        /\ bus = << <<"r", pre.pc>>, <<"r", StackCell(pre.sp + 1)>>, <<"r", StackCell(pre.sp + 2)>> >>
        /\ pc = ( MemoryRead(pre.memory, StackCell(pre.sp + 1))
                  + 256 * MemoryRead(pre.memory, StackCell(pre.sp + 2)) + 1 ) % 65536
        /\ sp = (pre.sp + 2) % 256
        /\ acc = pre.acc /\ x = pre.x /\ y = pre.y /\ status = pre.status
        /\ memory = pre.memory

\* where JMP indirect with operand a takes the high byte of PC from
HighByteCell(a) == IF a % 256 = 255 THEN a - 255 ELSE a + 1

\* C16: JMP indirect with operand addr16 sets the low byte of PC to
\* mem[addr16] and the high byte to mem[addr16 AND $FF00] when addr16 ends in
\* $FF, to mem[addr16 + 1] otherwise.
C16_JmpIndirectTarget ==
    Called(Opcode.JMPInd) =>
        /\ Completed
        /\ pc % 256 = MemoryRead(pre.memory, AbsOperand)
        /\ pc \div 256 = MemoryRead(pre.memory, HighByteCell(AbsOperand))

C16_Witness ==
    /\ Completed
    /\ pre.op = Opcode.JMPInd
    /\ AbsOperand = 32767
    /\ MemoryRead(pre.memory, 32767) = 252
    /\ MemoryRead(pre.memory, 32512) = 127
    /\ MemoryRead(pre.memory, 32768) = 0
    /\ pc = 32764

\* C17: JMP absolute and JMP indirect leave A, X, Y, SP, P and every memory
\* byte as they were, for every operand.
C17_JmpFrame ==
    (Completed /\ pre.op \in {Opcode.JMPAbs, Opcode.JMPInd}) =>
        /\ acc = pre.acc /\ x = pre.x /\ y = pre.y
        /\ sp = pre.sp
        /\ status = pre.status
        /\ memory = pre.memory

ReadsAt(a) ==
    bus = << <<"r", pre.pc>>, <<"r", (pre.pc + 1) % 65536>>, <<"r", a>> >>
WritesAt(a, v) ==
    bus = << <<"r", pre.pc>>, <<"r", (pre.pc + 1) % 65536>>, <<"w", a, v>> >>

\* C19: LDA, LDY, STA, STY in Zero Page,X mode and LDX, STX in Zero Page,Y
\* mode access (d + index) mod 256, a cell of page 0, and take 4 cycles.
C19_ZeroPageIndexedWraps ==
    Completed =>
        /\ pre.op \in {Opcode.LDAZpx, Opcode.LDYZpx} =>
              ReadsAt((Operand1 + pre.x) % 256) /\ Delta = 4
        /\ pre.op = Opcode.LDXZpy =>
              ReadsAt((Operand1 + pre.y) % 256) /\ Delta = 4
        /\ pre.op = Opcode.STAZpx =>
              WritesAt((Operand1 + pre.x) % 256, pre.acc) /\ Delta = 4
        /\ pre.op = Opcode.STYZpx =>
              WritesAt((Operand1 + pre.x) % 256, pre.y) /\ Delta = 4
        /\ pre.op = Opcode.STXZpy =>
              WritesAt((Operand1 + pre.y) % 256, pre.x) /\ Delta = 4

C19_Witness ==
    /\ Completed
    /\ pre.op = Opcode.LDAZpx
    /\ Operand1 = 255
    /\ pre.x = 127
    /\ bus[3] = <<"r", 126>>
    /\ MemoryRead(pre.memory, 126) = 252
    /\ acc = 252
    /\ Delta = 4

\* the third and fourth bus accesses of the instruction read cells lo and hi
PointerReadAt(lo, hi) ==
    /\ Len(bus) = 5
    /\ bus[3] = <<"r", lo>>
    /\ bus[4] = <<"r", hi>>

\* C20: LDA and STA (Indirect,X) read the pointer low byte at p = (d + X) mod
\* 256 and the high byte at (p + 1) mod 256; LDA and STA (Indirect),Y read
\* it at d and (d + 1) mod 256.
C20_PointerFetchWraps ==
    Completed =>
        /\ pre.op \in {Opcode.LDAIdx, Opcode.STAIdx} =>
              PointerReadAt((Operand1 + pre.x) % 256, (Operand1 + pre.x + 1) % 256)
        /\ pre.op \in {Opcode.LDAIdy, Opcode.STAIdy} =>
              PointerReadAt(Operand1, (Operand1 + 1) % 256)

C20_Witness ==
    /\ Completed
    /\ pre.op = Opcode.LDAIdx
    /\ Operand1 = 0
    /\ pre.x = 255
    /\ bus[3] = <<"r", 255>>
    /\ bus[4] = <<"r", 0>>
    /\ MemoryRead(pre.memory, 255) = 127
    /\ MemoryRead(pre.memory, 0) = 252
    /\ bus[5] = <<"r", 64639>>

----------------------------------------------------------------------------
(* The stack page *)

StackOps ==
    { Opcode.PHA, Opcode.PHP, Opcode.PLA, Opcode.PLP, Opcode.JSR, Opcode.RTS }

\* the bus accesses of the last instruction after its opcode and operand bytes
StackAccesses ==
    LET skip == IF pre.op = Opcode.JSR THEN 3 ELSE 1
    IN  IF Len(bus) <= skip THEN <<>> ELSE SubSeq(bus, skip + 1, Len(bus))

\* the stack accesses a stack instruction started with SP = s is to make
StackPlan(op, s) ==
    IF op \in {Opcode.PHA, Opcode.PHP} THEN << <<"w", StackCell(s)>> >>
    ELSE IF op \in {Opcode.PLA, Opcode.PLP} THEN << <<"r", StackCell(s + 1)>> >>
    ELSE IF op = Opcode.JSR THEN << <<"w", StackCell(s)>>, <<"w", StackCell(s + 255)>> >>
    ELSE << <<"r", StackCell(s + 1)>>, <<"r", StackCell(s + 2)>> >>

\* SP after a stack instruction started with SP = s
StackPointerAfter(op, s) ==
    IF op \in {Opcode.PHA, Opcode.PHP} THEN (s + 255) % 256
    ELSE IF op \in {Opcode.PLA, Opcode.PLP} THEN (s + 1) % 256
    ELSE IF op = Opcode.JSR THEN (s + 254) % 256
    ELSE (s + 2) % 256

\* C21: every stack access of PHA, PHP, PLA, PLP, JSR and RTS lies in
\* $0100-$01FF at $0100 | SP: a push writes the cell SP points at and then
\* decreases SP modulo 256 (SP = $00 writes $0100 and leaves $FF), a pop
\* increases SP modulo 256 and then reads the cell it points at (SP = $FF
\* reads $0100 and leaves $00).
C21_StackStaysInPageOne ==
    (last = "execute" /\ pre.op \in StackOps) =>
        /\ \A i \in DOMAIN StackAccesses : StackAccesses[i][2] \in 256..511
        /\ Completed =>
              /\ [i \in DOMAIN StackAccesses |-> SubSeq(StackAccesses[i], 1, 2)]
                     = StackPlan(pre.op, pre.sp)
              /\ sp = StackPointerAfter(pre.op, pre.sp)

\* PHA with SP = $00 wrote $0100 and left SP = $FF, then PLA with SP = $FF
\* read $0100 and left SP = $00
C21_Witness ==
    /\ Completed
    /\ Len(before) >= 1
    /\ Leader.op = Opcode.PHA /\ Leader.sp = 0
    /\ pre.op = Opcode.PLA /\ pre.sp = 255
    /\ bus = << <<"r", pre.pc>>, <<"r", 256>> >>
    /\ MemoryRead(memory, 256) = Leader.acc
    /\ sp = 0

----------------------------------------------------------------------------
(* reset() *)

\* the registers are those reset() leaves on the memory as it is now
ResetState ==
    /\ acc = 0 /\ x = 0 /\ y = 0
    /\ sp = 255
    /\ status = 32
    /\ cycles = 7
    /\ pc = MemoryRead(memory, 65532) + 256 * MemoryRead(memory, 65533)

\* C22: whatever the state before, reset() leaves A = X = Y = 0, SP = $FF,
\* P = $20, cycles = 7 and PC = mem[$FFFC] + 256 * mem[$FFFD]; it does not
\* modify memory; and one more reset() on the same memory changes nothing.
C22_ResetEstablishesPowerOnState ==
    /\ [](last = "reset" =>
            /\ ResetState
            /\ \A r \in {reset(Machine(FALSE))} :
                  /\ <<r.acc, r.x, r.y, r.sp, r.pc, r.status, r.cycles>>
                        = <<acc, x, y, sp, pc, status, cycles>>
                  /\ r.memory = memory)
    /\ [][last' = "reset" => memory' = memory]_vars

\* reset() came upon registers that all differed from their reset values,
\* after the program had moved the reset vector
C22_Witness ==
    /\ phase = "Restarted"
    /\ last = "reset"
    /\ Len(before) = PairLength
    /\ pre.acc # 0 /\ pre.x # 0 /\ pre.y # 0 /\ pre.sp # 255
    /\ pre.status # 32 /\ pre.cycles > 7
    /\ pc # 512
    /\ ResetState

\* what a read of cell a of a Memory nobody has written returns
FreshByte(a) == IF a = 65533 THEN 2 ELSE 0

\* every cell reads as it does in a Memory nobody has written
ReadsAsFresh == \A a \in DOMAIN memory : memory[a] = FreshByte(a)

\* C23: a Memory as constructed reads $00 at $FFFC, $02 at $FFFD and $00 at
\* every other address, so reset() on it sets PC to $0200.
C23_FreshMemoryStartsAt0200 ==
    /\ (phase = "Created" /\ memory = EmptyMemory) =>
           \A a \in 0..65535 : MemoryRead(memory, a) = FreshByte(a)
    /\ (last = "reset" /\ ReadsAsFresh) => pc = 512

\* reset() has run on a memory that reads as a fresh one
C23_Witness ==
    /\ last = "reset"
    /\ phase = "Running"
    /\ ReadsAsFresh
    /\ bus = << <<"r", 65533>>, <<"r", 65532>> >>
    /\ pc = 512

\* the operand address of the absolute-mode instruction snapshot p is about
\* to run, and the register that STA, STX or STY stores
OperandOf(p) ==
    MemoryRead(p.memory, (p.pc + 1) % 65536)
        + 256 * MemoryRead(p.memory, (p.pc + 2) % 65536)

StoredBy(p) ==
    IF p.op = 141 THEN p.acc ELSE IF p.op = 142 THEN p.x ELSE p.y

\* the byte of PC that reset() takes from vector cell a
VectorByte(a) == IF a = 65532 THEN pc % 256 ELSE pc \div 256

\* C24: a store of the program to $FFFC or $FFFD (STA, STX, STY absolute)
\* takes effect as any write does, and a reset() after it loads PC from the
\* bytes stored, low byte from $FFFC and high byte from $FFFD.
C24_StoredVectorIsUsedByReset ==
    /\ (Completed /\ pre.op \in {141, 142, 140} /\ AbsOperand \in {65532, 65533}) =>
           /\ MemoryRead(memory, AbsOperand) = StoredBy(pre)
           /\ \A a \in (DOMAIN memory \cup DOMAIN pre.memory) \ {AbsOperand} :
                  MemoryRead(memory, a) = MemoryRead(pre.memory, a)
    /\ (phase = "Restarted" /\ pre.op \in {141, 142, 140}
            /\ OperandOf(pre) \in {65532, 65533}) =>
           /\ VectorByte(OperandOf(pre)) = StoredBy(pre)
           /\ ( /\ Len(before) >= 1
                /\ Leader.op \in {141, 142, 140}
                /\ OperandOf(Leader) \in {65532, 65533} \ {OperandOf(pre)} )
                  => VectorByte(OperandOf(Leader)) = StoredBy(Leader)

\* STA $FFFC with A = $7F, STX $FFFD with X = $FF, then reset(): PC = $FF7F
C24_Witness ==
    /\ phase = "Restarted"
    /\ Len(before) >= 1
    /\ Leader.op = 141 /\ OperandOf(Leader) = 65532 /\ Leader.acc = 127
    /\ pre.op = 142 /\ OperandOf(pre) = 65533 /\ pre.x = 255
    /\ MemoryRead(Leader.memory, 65532) = 0 /\ MemoryRead(Leader.memory, 65533) = 2
    /\ pc = 65407

----------------------------------------------------------------------------
(* Transfers and stores *)

\* C25: TXS sets SP to X and leaves P (Z and N included), A, X, Y and memory
\* as they were, for every X, $00 and values with bit 7 set included.
C25_TxsFrame ==
    Called(154) =>
        /\ Completed
        /\ sp = pre.x
        /\ status = pre.status
        /\ acc = pre.acc /\ x = pre.x /\ y = pre.y
        /\ memory = pre.memory

\* TXS moved $00 with Z clear, or $FF with N clear, into an SP that differed
C25_Witness ==
    /\ Completed
    /\ pre.op = 154
    /\ pre.sp # pre.x
    /\ \/ pre.x = 0 /\ Bit(pre.status, 1) = 0 /\ Bit(status, 1) = 0 /\ sp = 0
       \/ pre.x = 255 /\ Bit(pre.status, 7) = 0 /\ Bit(status, 7) = 0 /\ sp = 255

StoresOfA == {133, 149, 141, 157, 153, 129, 145}
StoresOfX == {134, 150, 142}
StoresOfY == {132, 148, 140}

\* the register the store instruction op writes
StoreValue(op) ==
    IF op \in StoresOfA THEN pre.acc ELSE IF op \in StoresOfX THEN pre.x ELSE pre.y

\* the effective address of the store instruction op
StoreAddress(op) ==
    IF op \in {133, 134, 132} THEN Operand1
    ELSE IF op \in {149, 148} THEN (Operand1 + pre.x) % 256
    ELSE IF op = 150 THEN (Operand1 + pre.y) % 256
    ELSE IF op \in {141, 142, 140} THEN AbsOperand
    ELSE IF op = 157 THEN (AbsOperand + pre.x) % 65536
    ELSE IF op = 153 THEN (AbsOperand + pre.y) % 65536
    ELSE IF op = 129 THEN ZpPointer((Operand1 + pre.x) % 256)
    ELSE (ZpPointer(Operand1) + pre.y) % 65536

\* C26: each STA, STX and STY writes A, X or Y to its effective address and
\* to no other memory byte, and leaves A, X, Y, SP and P as they were.
C26_StoreFrame ==
    (last = "execute" /\ pre.op \in StoresOfA \cup StoresOfX \cup StoresOfY) =>
        /\ Completed
        /\ \A a \in DOMAIN memory \cup DOMAIN pre.memory \cup {StoreAddress(pre.op)} :
              MemoryRead(memory, a) = IF a = StoreAddress(pre.op)
                                      THEN StoreValue(pre.op)
                                      ELSE MemoryRead(pre.memory, a)
        /\ { i \in DOMAIN bus : bus[i][1] = "w" } = {Len(bus)}
        /\ bus[Len(bus)] = <<"w", StoreAddress(pre.op), StoreValue(pre.op)>>
        /\ acc = pre.acc /\ x = pre.x /\ y = pre.y
        /\ sp = pre.sp
        /\ status = pre.status

\* STA (d),Y changed the cell the pointer plus Y names, with X different
\* from Y, and STX d,Y and STY d,X wrapped inside the zero page
C26_Witness ==
    /\ Completed
    /\ \/ /\ pre.op = 145
          /\ pre.x # pre.y
          /\ pre.y # 0
          /\ MemoryRead(pre.memory, StoreAddress(145)) # pre.acc
          /\ MemoryRead(memory, StoreAddress(145)) = pre.acc
       \/ /\ pre.op = 150
          /\ Operand1 + pre.y > 255
          /\ MemoryRead(memory, Operand1 + pre.y - 256) = pre.x
          /\ pre.x # 0
       \/ /\ pre.op = 148
          /\ Operand1 + pre.x > 255
          /\ MemoryRead(memory, Operand1 + pre.x - 256) = pre.y
          /\ pre.y # 0

----------------------------------------------------------------------------
(* The program counter *)

\* the instructions that set PC themselves: JMP absolute and indirect, JSR, RTS
Jumps == {76, 108, 32, 96}

\* the length in bytes of the instruction with opcode op
Length(op) ==
    IF op \in {72, 8, 104, 40, 186, 154} THEN 1
    ELSE IF op \in {173, 189, 185, 174, 190, 172, 188, 141, 157, 153, 142, 140} THEN 3
    ELSE 2

\* C27: every instruction other than JMP, JSR and RTS, from every PC, ends
\* with PC = (PC before + length) mod 65536, the length being 1 for PHA, PHP,
\* PLA, PLP, TSX and TXS, 2 for the immediate, zero-page and indirect modes and
\* 3 for the absolute modes; its bytes are fetched from consecutive addresses
\* modulo 65536, so that one starting at or near $FFFF continues at $0000.
C27_PcAdvancesByLength ==
    (Completed /\ pre.op \in OpcodeBytes \ Jumps) =>
        /\ pc = (pre.pc + Length(pre.op)) % 65536
        /\ Len(bus) >= Length(pre.op)
        /\ \A i \in 1..Length(pre.op) : bus[i] = <<"r", (pre.pc + i - 1) % 65536>>

\* instructions of two and of three bytes that started at $FFFF
C27_Witness ==
    /\ Completed
    /\ pre.pc = 65535
    /\ \/ pre.op = 173 /\ pc = 2
             /\ SubSeq(bus, 1, 3) = << <<"r", 65535>>, <<"r", 0>>, <<"r", 1>> >>
       \/ pre.op = 169 /\ pc = 1
             /\ SubSeq(bus, 1, 2) = << <<"r", 65535>>, <<"r", 0>> >>

----------------------------------------------------------------------------
(* A call and its return *)

\* C28: with JSR $3042 (20 42 30) at $0200, LDA #$01, RTS (A9 01 60) at $3042
\* and the default reset vector, reset() and three execute_next_instruction
\* calls end with A = $01, PC = $0203, SP = $FF and cycles = 21, and after the
\* first and after the second call $01FF holds $02 and $01FE holds $02.  The
\* same is stated for every place of the subroutine and every byte it loads.
C28_CallLoadReturn ==
    /\ (last = "execute" /\ pre.op \in {32, 169}) =>
           /\ Completed
           /\ MemoryRead(memory, 511) = 2
           /\ MemoryRead(memory, 510) = 2
    /\ (last = "execute" /\ pre.op = 96) =>
           /\ Completed
           /\ acc = MemoryRead(memory, pre.pc - 1)
           /\ pc = 515
           /\ sp = 255
           /\ cycles = 21

\* the third call has returned in the program of the claim
C28_Witness ==
    /\ Completed
    /\ pre.op = 96
    /\ <<MemoryRead(memory, 512), MemoryRead(memory, 513), MemoryRead(memory, 514)>>
          = <<32, 66, 48>>
    /\ <<MemoryRead(memory, 12354), MemoryRead(memory, 12355), MemoryRead(memory, 12356)>>
          = <<169, 1, 96>>
    /\ Len(before) = 2
    /\ before[1].op = 169 /\ before[2].op = 32 /\ before[2].cycles = 7
    /\ acc = 1
    /\ pc = 515
    /\ sp = 255
    /\ cycles = 21
    /\ MemoryRead(pre.memory, 511) = 2 /\ MemoryRead(pre.memory, 510) = 2
    /\ MemoryRead(before[1].memory, 511) = 2 /\ MemoryRead(before[1].memory, 510) = 2

----------------------------------------------------------------------------
(* The instruction objects *)

\* the extra cycle of the LDA with opcode op for the page crossing it made
PageCrossCycle(op) ==
    IF op = 189 THEN Penalty(AbsOperand, pre.x)
    ELSE IF op = 185 THEN Penalty(AbsOperand, pre.y)
    ELSE IF op = 177 THEN Penalty(ZpPointer(Operand1), pre.y)
    ELSE 0

\* C29: in every addressing mode LDA takes the cycles that cycles() of its
\* instruction object returns, plus one when Absolute,X, Absolute,Y or
\* (Indirect),Y crosses a page, and PC advances by its bytes().
C29_LdaMatchesItsInstructionObject ==
    (last = "execute" /\ pre.op \in {169, 165, 181, 173, 189, 185, 161, 177}) =>
        \A i \in {from_byte(pre.op)} :
            /\ Completed
            /\ i.panic = "none"
            /\ i.opcode = pre.op
            /\ Delta = i.cycles + PageCrossCycle(pre.op)
            /\ pc = (pre.pc + i.bytes) % 65536

\* LDA (d),Y and LDA a,X crossed a page and took cycles() + 1; LDA (d,X)
\* took cycles()
C29_Witness ==
    /\ Completed
    /\ \/ pre.op = 177 /\ PageCrossCycle(177) = 1 /\ Delta = 6 /\ pc = pre.pc + 2
       \/ pre.op = 189 /\ PageCrossCycle(189) = 1 /\ Delta = 5 /\ pc = pre.pc + 3
       \/ pre.op = 161 /\ Delta = 6 /\ pc = pre.pc + 2

\* C30: every opcode byte the Opcode enumeration accepts has a handler:
\* InstructionDecoder::from_byte returns an instruction for it (LDX, LDY, the
\* stores and the stack operations included) and execute_next_instruction
\* dispatches it, so that decoding it never faults.
C30_EveryOpcodeDecodes ==
    (last = "execute" /\ pre.op \in OpcodeBytes) =>
        /\ from_byte(pre.op).panic = "none"
        /\ fault # "InvalidOpcode"

----------------------------------------------------------------------------
(* The opcodes of the stores *)

\* the store of the register that the load named m loads
StoreOf(m) == IF m = "LDA" THEN "STA" ELSE IF m = "LDX" THEN "STX" ELSE "STY"

\* the variants of Opcode that name the byte op
VariantsOf(op) == { n \in DOMAIN Opcode : Opcode[n] = op }

\* C31: STA, STX and STY have an opcode for every addressing mode of LDA,
\* LDX and LDY respectively, Immediate excepted: so whenever a load has run
\* in a mode other than Immediate, the store of its register has an opcode
\* in that mode too (STX in Absolute,Y and STY in Absolute,X included).
C31_StoresMirrorLoads ==
    Completed =>
        \A n \in VariantsOf(pre.op) :
            (OpcodeMnemonic[n] \in {"LDA", "LDX", "LDY"} /\ OpcodeMode[n] # "Immediate") =>
                \E t \in DOMAIN Opcode :
                    /\ OpcodeMnemonic[t] = StoreOf(OpcodeMnemonic[n])
                    /\ OpcodeMode[t] = OpcodeMode[n]

----------------------------------------------------------------------------
(* Indexed addresses *)

\* the base address and the index of the indexed instruction with opcode op
IndexBase(op) == IF op \in {177, 145} THEN ZpPointer(Operand1) ELSE AbsOperand

IndexOf(op) == IF op \in {189, 188, 157} THEN pre.x ELSE pre.y

\* C32: in Absolute,X, Absolute,Y and (Indirect),Y modes the address accessed
\* is (base + index) mod 65536, so that a base of $FFFF with a positive index
\* reaches page $00, and for the loads that wrap costs the extra cycle of a
\* page crossing.
C32_IndexedAddressWraps ==
    (Completed /\ pre.op \in {189, 188, 157, 185, 190, 153, 177, 145}) =>
        /\ bus[Len(bus)][2] = (IndexBase(pre.op) + IndexOf(pre.op)) % 65536
        /\ pre.op \in {189, 188, 185, 190, 177} =>
              Delta = (IF pre.op = 177 THEN 5 ELSE 4)
                      + (IF ((IndexBase(pre.op) + IndexOf(pre.op)) % 65536) \div 256
                            # IndexBase(pre.op) \div 256
                         THEN 1 ELSE 0)

\* a load from base $FFFF with a positive index read page $00 in one cycle more
C32_Witness ==
    /\ Completed
    /\ pre.op \in {189, 185, 177}
    /\ IndexBase(pre.op) = 65535
    /\ IndexOf(pre.op) > 0
    /\ bus[Len(bus)] = <<"r", IndexOf(pre.op) - 1>>
    /\ acc = MemoryRead(pre.memory, IndexOf(pre.op) - 1)
    /\ Delta = (IF pre.op = 177 THEN 6 ELSE 5)

----------------------------------------------------------------------------
(* The stack as a whole *)

\* the number of bytes the program in memory pushes: after LDX # and TXS
\* it has three bytes for each push and one for each pull
Pushed == Cardinality({ a \in DOMAIN memory : a >= 515 /\ a < 65532 }) \div 4

\* the byte the i-th LDA # of the program loads, to be pushed by the i-th PHA
PushedByte(i) == MemoryRead(memory, 515 + 3 * (i - 1) + 1)

\* the PLA just run was the j-th of k: it has loaded the byte pushed j-th
\* from last, and the k-th PLA leaves SP where TXS had put it
PulledInReverse(k, j) ==
    /\ j \in 1..k
    /\ acc = PushedByte(k - j + 1)
    /\ sp = (MemoryRead(memory, 513) + 256 * k - k + j) % 256
    /\ j = k => sp = MemoryRead(memory, 513)

\* C33: the stack is last-in first-out: k PHA pushing v1..vk followed by k
\* PLA load A with vk, ..., v1 in that order and restore SP, for k up to 256
\* and for every starting SP.
C33_StackIsLifo ==
    (last = "execute" /\ pre.op = 104) =>
        /\ Completed
        /\ PulledInReverse(Pushed, pre.pc - (515 + 3 * Pushed) + 1)

\* the last of 256 PLA has loaded the byte pushed first and SP is back
C33_Witness ==
    /\ Completed
    /\ pre.op = 104
    /\ Pushed = 256
    /\ pre.pc = 515 + 3 * 256 + 255
    /\ acc = 3
    /\ MemoryRead(memory, 513) = 0
    /\ pre.sp = 255
    /\ sp = 0

----------------------------------------------------------------------------
(* What instructions leave alone *)

\* C34: when execute_next_instruction faults on a byte that is no opcode,
\* A, X, Y, SP, P and every memory byte are as before the call; PC has
\* advanced by 1 modulo 65536 and the cycle counter by 1.
C34_InvalidOpcodeFrame ==
    (last = "execute" /\ pre.op \notin OpcodeBytes) =>
        /\ fault = "InvalidOpcode"
        /\ acc = pre.acc /\ x = pre.x /\ y = pre.y
        /\ sp = pre.sp
        /\ status = pre.status
        /\ memory = pre.memory
        /\ bus = << <<"r", pre.pc>> >>
        /\ pc = (pre.pc + 1) % 65536
        /\ cycles = pre.cycles + 1

\* the fault came with registers that differ from one another, and at $FFFF
C34_Witness ==
    /\ last = "execute"
    /\ pre.op \notin OpcodeBytes
    /\ fault = "InvalidOpcode"
    /\ cycles = pre.cycles + 1
    /\ \/ pre.pc = 65535 /\ pc = 0
       \/ pre.acc # pre.x /\ pre.x # pre.y /\ pre.sp # 255 /\ pc = pre.pc + 1

\* LDA, LDX, LDY, PLA, PLP, TSX, TXS, JMP and RTS
Readers ==
    { n \in DOMAIN Opcode :
        OpcodeMnemonic[n] \in {"LDA", "LDX", "LDY", "PLA", "PLP", "TSX", "TXS", "JMP", "RTS"} }

\* C35: LDA, LDX, LDY, PLA, PLP, TSX, TXS, JMP and RTS never write memory:
\* after any of them every memory byte is what it was before.
C35_ReadersLeaveMemory ==
    (last = "execute" /\ pre.op \in { Opcode[n] : n \in Readers }) =>
        /\ memory = pre.memory
        /\ \A i \in DOMAIN bus : bus[i][1] = "r"

\* a pull, a return and an indexed load have run on a stack and a memory
\* that hold bytes other than $00
C35_Witness ==
    /\ Completed
    /\ memory = pre.memory
    /\ \/ pre.op \in {104, 40, 96} /\ MemoryRead(memory, StackCell(pre.sp + 1)) # 0
       \/ pre.op = 177 /\ acc # 0
       \/ pre.op = 108 /\ pc # 512

\* the mnemonic of the instruction that has just run ("" if it has none)
Ran(m) == \E n \in VariantsOf(pre.op) : OpcodeMnemonic[n] = m

\* C36: a load changes only its own register: LDA leaves X, Y and SP as
\* they were, LDX leaves A, Y and SP, LDY leaves A, X and SP, PLA leaves X
\* and Y, TSX leaves A, Y and SP.
C36_LoadFrame ==
    Completed =>
        /\ Ran("LDA") => x = pre.x /\ y = pre.y /\ sp = pre.sp
        /\ Ran("LDX") => acc = pre.acc /\ y = pre.y /\ sp = pre.sp
        /\ Ran("LDY") => acc = pre.acc /\ x = pre.x /\ sp = pre.sp
        /\ Ran("PLA") => x = pre.x /\ y = pre.y
        /\ Ran("TSX") => acc = pre.acc /\ y = pre.y /\ sp = pre.sp

\* the register loaded has changed to a byte that none of the registers
\* left alone holds
C36_Witness ==
    /\ Completed
    /\ \/ Ran("LDA") /\ acc # pre.acc /\ acc \notin {x, y, sp}
       \/ Ran("LDX") /\ x # pre.x /\ x \notin {acc, y, sp}
       \/ Ran("LDY") /\ pre.op # 160 /\ y # pre.y /\ y \notin {acc, x, sp}
       \/ Ran("PLA") /\ acc # pre.acc /\ acc \notin {x, y}
       \/ Ran("TSX") /\ x # pre.x /\ x \notin {acc, y}

----------------------------------------------------------------------------
(* Memory *)

\* the addresses and bytes written for the comparison: the ends of the zero
\* page, of the stack page, of the two halves of the memory, and the vector
MemoryProbes == {0, 255, 256, 511, 512, 32767, 32768, 65532, 65533, 65535}
ProbeBytes == {0, 1, 127, 128, 255}

\* the addresses read back: all 65536 of a memory nobody has written, else
\* the cells written so far and the probes
ReadBack == IF memory = EmptyMemory THEN 0..65535 ELSE DOMAIN memory \cup MemoryProbes

\* C37: after write(b, a), read(a) returns b and read(a2) returns for every
\* other address a2 what it returned before the write.
C37_WriteThenRead ==
    \A a \in MemoryProbes, b \in ProbeBytes :
        \A w \in {MemoryWrite(memory, b, a)} :
            /\ MemoryRead(w, a) = b
            /\ \A a2 \in ReadBack \ {a} : MemoryRead(w, a2) = MemoryRead(memory, a2)

\* a store of the program has replaced the low byte of the reset vector and
\* left the high byte
C37_Witness ==
    /\ Completed
    /\ pre.op = 141
    /\ AbsOperand = 65532
    /\ MemoryRead(pre.memory, 65532) # pre.acc
    /\ MemoryRead(memory, 65532) = pre.acc
    /\ MemoryRead(pre.memory, 65533) # pre.acc
    /\ MemoryRead(memory, 65533) = MemoryRead(pre.memory, 65533)

----------------------------------------------------------------------------
(* The two implementations of LDA *)

\* the CPU as it was when the instruction that has just run started
Earlier ==
    [ acc |-> pre.acc, x |-> pre.x, y |-> pre.y, sp |-> pre.sp, pc |-> pre.pc,
      status |-> pre.status, cycles |-> pre.cycles, memory |-> pre.memory,
      bus |-> <<>>, overflow_checks |-> FALSE, panic |-> "none" ]

\* C38: the LDA handler functions and the LDA instruction object are
\* equivalent: in each of the eight addressing modes, from the same registers
\* and memory, the object decoded from the opcode leaves the A, P, PC, cycle
\* counter and memory that the handler has left.
C38_LdaImplementationsAgree ==
    (Completed /\ Ran("LDA")) =>
        \A o \in {LDA_execute(from_byte(pre.op), fetch_byte(Earlier).c)} :
            /\ o.panic = "none"
            /\ o.acc = acc
            /\ o.status = status
            /\ o.pc = pc
            /\ o.cycles = cycles
            /\ o.memory = memory

\* LDA (d),Y has crossed a page and loaded a byte with bit 7 set, or LDA d,X
\* has wrapped in the zero page and loaded $00 with Z clear before
C38_Witness ==
    /\ Completed
    /\ \/ pre.op = 177 /\ PageCrossCycle(177) = 1 /\ acc > 127
             /\ Bit(pre.status, 7) = 0 /\ Bit(status, 7) = 1
       \/ pre.op = 181 /\ Operand1 + pre.x > 255 /\ acc = 0
             /\ Bit(pre.status, 1) = 0 /\ Bit(status, 1) = 1

============================================================================
